---- MODULE Spec2Model ----
(***************************************************************************)
(* Gmail Labels & Queries as Tabs: the unread-count reconciliation engine  *)
(* (unread.ts), the tab rendering that starts it (tabs.ts), the content    *)
(* script's initialisation (content.ts) and the settings store             *)
(* (storage.ts), as one state machine.                                     *)
(*                                                                         *)
(* Strings are sequences of one-character strings, so that the string      *)
(* functions of the code (toLowerCase, decodeURIComponent, replace,        *)
(* startsWith, the regular expressions) are computed and not assumed.      *)
(***************************************************************************)
EXTENDS Integers, Sequences, FiniteSets, TLC

\* ------------------------------------------------------------------------
\* Bounds of the model
\* ------------------------------------------------------------------------
MaxRenders == 2     \* render passes of the bar in one behaviour
MaxCount == 1       \* largest count the feed reports
MaxInitRenders == 5 \* render passes an initialisation can make
MaxDepth == 2       \* levels of nesting around a value of a response
MaxOps == 2         \* storage operations started in one behaviour
MaxRetries == 3     \* retry timers of attemptInjection pending at once
MaxDrops == 2       \* drops made in one behaviour

\* ------------------------------------------------------------------------
\* String literals of the code and of the modelled inputs
\* ------------------------------------------------------------------------
\* the routes and route prefixes the code compares data-value with
Route ==
    [inbox |-> <<"#", "i", "n", "b", "o", "x">>,
     starred |-> <<"#", "s", "t", "a", "r", "r", "e", "d">>,
     drafts |-> <<"#", "d", "r", "a", "f", "t", "s">>,
     sent |-> <<"#", "s", "e", "n", "t">>,
     spam |-> <<"#", "s", "p", "a", "m">>,
     trash |-> <<"#", "t", "r", "a", "s", "h">>,
     all |-> <<"#", "a", "l", "l">>,
     labelPrefix |-> <<"#", "l", "a", "b", "e", "l", "/">>,
     searchPrefix |-> <<"#", "s", "e", "a", "r", "c", "h", "/">>,
     searchLabelPrefix |-> <<"#", "s", "e", "a", "r", "c", "h", "/", "l", "a", "b", "e", "l", ":">>]

\* the host's ids of its system views
SystemLabel ==
    [inbox |-> <<"^", "i">>,
     starred |-> <<"^", "t">>,
     drafts |-> <<"^", "r">>,
     sent |-> <<"^", "f">>,
     spam |-> <<"^", "s">>,
     trash |-> <<"^", "k">>,
     all |-> <<"^", "a", "l", "l">>]

\* the other words the code matches against
Word ==
    [labelColon |-> <<"l", "a", "b", "e", "l", ":">>,
     inboxLower |-> <<"i", "n", "b", "o", "x">>,
     sentLower |-> <<"s", "e", "n", "t">>,
     Inbox |-> <<"I", "n", "b", "o", "x">>,
     Sent |-> <<"S", "e", "n", "t">>,
     unread |-> <<"u", "n", "r", "e", "a", "d">>]

\* the label names, ids, routes and aria-labels of the modelled inputs
Sample ==
    [work |-> <<"W", "o", "r", "k">>,
     label4 |-> <<"L", "a", "b", "e", "l", "_", "4">>,
     label4Space |-> <<"l", "a", "b", "e", "l", " ", "4">>,
     pct |-> <<"5", "%">>,
     hashLabelPct |-> <<"#", "l", "a", "b", "e", "l", "/", "5", "%">>,
     hashLabelPctEnc |-> <<"#", "l", "a", "b", "e", "l", "/", "5", "%", "2", "5">>,
     hashLabel4 |-> <<"#", "l", "a", "b", "e", "l", "/", "L", "a", "b", "e", "l", "_", "4">>,
     ariaWork3 |-> <<"W", "o", "r", "k", ",", " ", "3", " ", "u", "n", "r", "e", "a", "d">>,
     ariaInbox7 |-> <<"I", "n", "b", "o", "x", ",", " ", "7", " ", "u", "n", "r", "e", "a", "d">>]

\* ------------------------------------------------------------------------
\* String functions (JavaScript's, on sequences of characters)
\* ------------------------------------------------------------------------
Digits == {"0", "1", "2", "3", "4", "5", "6", "7", "8", "9"}
HexDigits == Digits \cup {"A", "B", "C", "D", "E", "F", "a", "b", "c", "d", "e", "f"}
LowerLetters == {"a", "b", "c", "d", "e", "f", "g", "h", "i", "j", "k", "l", "m",
                 "n", "o", "p", "q", "r", "s", "t", "u", "v", "w", "x", "y", "z"}
UpperToLower == [c \in {"A", "B", "C", "D", "E", "F", "G", "H", "I", "J", "K", "L", "M",
                        "N", "O", "P", "Q", "R", "S", "T", "U", "V", "W", "X", "Y", "Z"} |->
                   CASE c = "A" -> "a" [] c = "B" -> "b" [] c = "C" -> "c" [] c = "D" -> "d"
                     [] c = "E" -> "e" [] c = "F" -> "f" [] c = "G" -> "g" [] c = "H" -> "h"
                     [] c = "I" -> "i" [] c = "J" -> "j" [] c = "K" -> "k" [] c = "L" -> "l"
                     [] c = "M" -> "m" [] c = "N" -> "n" [] c = "O" -> "o" [] c = "P" -> "p"
                     [] c = "Q" -> "q" [] c = "R" -> "r" [] c = "S" -> "s" [] c = "T" -> "t"
                     [] c = "U" -> "u" [] c = "V" -> "v" [] c = "W" -> "w" [] c = "X" -> "x"
                     [] c = "Y" -> "y" [] c = "Z" -> "z"]

LowerChar(c) == IF c \in DOMAIN UpperToLower THEN UpperToLower[c] ELSE c

\* String.prototype.toLowerCase
ToLower(s) == [i \in 1..Len(s) |-> LowerChar(s[i])]

\* String.prototype.startsWith
StartsWith(s, p) == Len(s) >= Len(p) /\ SubSeq(s, 1, Len(p)) = p

\* String.prototype.endsWith
EndsWith(s, p) == Len(s) >= Len(p) /\ SubSeq(s, Len(s) - Len(p) + 1, Len(s)) = p

\* the index of the first occurrence of p in s, 0 when there is none
IndexOf(s, p) ==
    LET hits == {i \in 1..(Len(s) - Len(p) + 1) : SubSeq(s, i, i + Len(p) - 1) = p}
    IN IF hits = {} THEN 0 ELSE CHOOSE i \in hits : \A j \in hits : i <= j

\* String.prototype.includes
Includes(s, p) == p = <<>> \/ IndexOf(s, p) # 0

\* s.replace(p, ''), p a string: the first occurrence only
RemoveFirst(s, p) ==
    LET i == IndexOf(s, p)
    IN IF i = 0 \/ p = <<>> THEN s ELSE SubSeq(s, 1, i - 1) \o SubSeq(s, i + Len(p), Len(s))

\* s.replace(/\+/g, ' ')
PlusToSpace(s) == [i \in 1..Len(s) |-> IF s[i] = "+" THEN " " ELSE s[i]]

\* the value of the percent escapes the model's inputs use
PctValue(h) == CASE h = <<"2", "5">> -> "%"
                 [] h = <<"2", "0">> -> " "
                 [] h = <<"2", "F">> -> "/"
                 [] h = <<"2", "3">> -> "#"
                 [] OTHER -> "?"

\* decodeURIComponent throws URIError on a "%" that two hex digits do not follow
RECURSIVE DecodeThrows(_)
DecodeThrows(s) ==
    IF s = <<>> THEN FALSE
    ELSE IF Head(s) = "%"
         THEN IF Len(s) >= 3 /\ s[2] \in HexDigits /\ s[3] \in HexDigits
              THEN DecodeThrows(SubSeq(s, 4, Len(s)))
              ELSE TRUE
         ELSE DecodeThrows(Tail(s))

\* decodeURIComponent, where it does not throw
RECURSIVE Decode(_)
Decode(s) ==
    IF s = <<>> THEN <<>>
    ELSE IF Head(s) = "%" /\ Len(s) >= 3
         THEN <<PctValue(SubSeq(s, 2, 3))>> \o Decode(SubSeq(s, 4, Len(s)))
         ELSE <<Head(s)>> \o Decode(Tail(s))

\* encodeURIComponent on the characters the model's inputs use
EncodeChar(c) == CASE c = "%" -> <<"%", "2", "5">>
                   [] c = " " -> <<"%", "2", "0">>
                   [] c = "/" -> <<"%", "2", "F">>
                   [] c = "#" -> <<"%", "2", "3">>
                   [] c = "^" -> <<"%", "5", "E">>
                   [] c = ":" -> <<"%", "3", "A">>
                   [] c = "," -> <<"%", "2", "C">>
                   [] c = "+" -> <<"%", "2", "B">>
                   [] OTHER -> <<c>>

RECURSIVE Encode(_)
Encode(s) == IF s = <<>> THEN <<>> ELSE EncodeChar(Head(s)) \o Encode(Tail(s))

\* encodeURIComponent(x).replace(/%20/g, '+')
RECURSIVE EncodePlus(_)
EncodePlus(s) ==
    IF s = <<>> THEN <<>>
    ELSE (IF Head(s) = " " THEN <<"+">> ELSE EncodeChar(Head(s))) \o EncodePlus(Tail(s))

\* Number.prototype.toString for a non-negative integer
RECURSIVE ToStr(_)
ToStr(n) ==
    LET d == CASE n % 10 = 0 -> "0" [] n % 10 = 1 -> "1" [] n % 10 = 2 -> "2"
               [] n % 10 = 3 -> "3" [] n % 10 = 4 -> "4" [] n % 10 = 5 -> "5"
               [] n % 10 = 6 -> "6" [] n % 10 = 7 -> "7" [] n % 10 = 8 -> "8"
               [] OTHER -> "9"
    IN IF n < 10 THEN <<d>> ELSE ToStr(n \div 10) \o <<d>>

\* ------------------------------------------------------------------------
\* Regular expressions of unread.ts; a match is the captured digits, and the
\* empty string stands for no match (a capture of \d+ is never empty)
\* ------------------------------------------------------------------------
WhiteSpace == {" "}

\* the last index of the run of characters of set cs that starts at i (i - 1: none)
RECURSIVE RunEnd(_, _, _)
RunEnd(s, i, cs) == IF i <= Len(s) /\ s[i] \in cs THEN RunEnd(s, i + 1, cs) ELSE i - 1

\* /(\d+)\s+unread/ (ci: with the i flag) anchored at index i
UnreadAt(s, i, ci) ==
    LET j == RunEnd(s, i, Digits)
        k == RunEnd(s, j + 1, WhiteSpace)
        w == SubSeq(s, k + 1, k + Len(Word.unread))
    IN j >= i /\ k >= j + 1 /\ k + Len(Word.unread) <= Len(s)
       /\ (IF ci THEN ToLower(w) ELSE w) = Word.unread

MatchUnread(s, ci) ==
    LET hits == {i \in 1..Len(s) : UnreadAt(s, i, ci)}
    IN IF hits = {} THEN <<>>
       ELSE LET i == CHOOSE x \in hits : \A y \in hits : x <= y
            IN SubSeq(s, i, RunEnd(s, i, Digits))

\* /\((\d+)\)/
MatchParen(s) ==
    LET ok(i) == s[i] = "(" /\ RunEnd(s, i + 1, Digits) >= i + 1
                 /\ RunEnd(s, i + 1, Digits) + 1 <= Len(s)
                 /\ s[RunEnd(s, i + 1, Digits) + 1] = ")"
        hits == {i \in 1..Len(s) : ok(i)}
    IN IF hits = {} THEN <<>>
       ELSE LET i == CHOOSE x \in hits : \A y \in hits : x <= y
            IN SubSeq(s, i + 1, RunEnd(s, i + 1, Digits))

\* /(\d+)$/m on a text of one line
MatchTrailingDigits(s) ==
    LET hits == {i \in 1..Len(s) : RunEnd(s, i, Digits) = Len(s)}
    IN IF hits = {} THEN <<>>
       ELSE SubSeq(s, CHOOSE x \in hits : \A y \in hits : x <= y, Len(s))

\* ------------------------------------------------------------------------
\* Label normalisation
\* ------------------------------------------------------------------------
\* .replace(/\s+/g, ' '): runs of white space become one space
RECURSIVE CollapseSpaces(_)
CollapseSpaces(s) ==
    IF s = <<>> THEN <<>>
    ELSE IF Head(s) \in WhiteSpace
         THEN <<" ">> \o CollapseSpaces(SubSeq(s, RunEnd(s, 1, WhiteSpace) + 1, Len(s)))
         ELSE <<Head(s)>> \o CollapseSpaces(Tail(s))

\* String.prototype.trim
RECURSIVE Trim(_)
Trim(s) ==
    IF s = <<>> THEN <<>>
    ELSE IF Head(s) \in WhiteSpace THEN Trim(Tail(s))
    ELSE IF s[Len(s)] \in WhiteSpace THEN Trim(SubSeq(s, 1, Len(s) - 1))
    ELSE s

SeparatorToSpace(s) == [i \in 1..Len(s) |-> IF s[i] \in {"/", "-", "_"} THEN " " ELSE s[i]]

\* normalizeLabel(name), where decodeURIComponent(name) does not throw
normalizeLabel(name) == Trim(CollapseSpaces(SeparatorToSpace(ToLower(Decode(name)))))

\* the normalize of handleUnreadUpdates: lower case, then only [a-z0-9] kept
normalize(str) == SelectSeq(ToLower(str), LAMBDA c : c \in LowerLetters \cup Digits)

\* ------------------------------------------------------------------------
\* ES6 Map as a sequence of <<key, value>> in insertion order
\* ------------------------------------------------------------------------
MapHas(m, k) == \E i \in 1..Len(m) : m[i][1] = k

MapGet(m, k) == m[CHOOSE i \in 1..Len(m) : m[i][1] = k][2]

MapSet(m, k, v) ==
    IF MapHas(m, k) THEN [i \in 1..Len(m) |-> IF m[i][1] = k THEN <<k, v>> ELSE m[i]]
    ELSE Append(m, <<k, v>>)

\* ------------------------------------------------------------------------
\* Tabs (storage.ts Tab) and the tab lists a profile is configured with
\* ------------------------------------------------------------------------
MkTab(id, type, value) == [id |-> id, title |-> value, type |-> type, value |-> value]

tInbox == MkTab("inbox", "hash", Route.inbox)
tWork == MkTab("work", "label", Sample.work)
tStarred == MkTab("starred", "hash", Route.starred)
tBadHash == MkTab("badhash", "hash", Sample.hashLabelPct)
tPctLabel == MkTab("pct", "label", Sample.pct)
tLetter == MkTab("letter", "label", <<"I">>)

TabListPool == { <<tBadHash, tInbox>>, <<tBadHash, tWork>>, <<tWork, tStarred>>, <<tPctLabel>>,
                 <<tLetter>> }

\* ------------------------------------------------------------------------
\* The host's rendered navigation markup: the links of the document, in
\* document order, and whether a navigation region holds those with inNav
\* ------------------------------------------------------------------------
MkLink(href, title, childTitle, aria, bsU, text, inNav) ==
    [href |-> href, title |-> title, childTitle |-> childTitle, aria |-> aria,
     bsU |-> bsU, text |-> text, inNav |-> inNav]

lnkInbox == MkLink(Route.inbox, <<>>, <<>>, Sample.ariaInbox7, <<"7">>, Word.Inbox, TRUE)
lnkWork == MkLink(Sample.hashLabel4, Sample.work, <<>>, Sample.ariaWork3, <<>>, Sample.work, TRUE)
lnkPct == MkLink(Sample.hashLabelPctEnc, <<>>, <<>>, Sample.pct, <<"4">>, Sample.pct, TRUE)

domEmpty == [nav |-> FALSE, links |-> <<>>]
domFull == [nav |-> TRUE, links |-> <<lnkInbox, lnkWork, lnkPct>>]

DomPool == {domEmpty, domFull}

\* ------------------------------------------------------------------------
\* buildLabelMapFromDOM
\* ------------------------------------------------------------------------
\* href.split('#label/')[1]
RawIdOf(href) ==
    LET i == IndexOf(href, Route.labelPrefix)
        after == SubSeq(href, i + Len(Route.labelPrefix), Len(href))
        j == IndexOf(after, Route.labelPrefix)
    IN IF j = 0 THEN after ELSE SubSeq(after, 1, j - 1)

\* s.split(',')[0]
BeforeComma(s) ==
    LET i == IndexOf(s, <<",">>) IN IF i = 0 THEN s ELSE SubSeq(s, 1, i - 1)

\* the title the map files a link under: its title, a descendant's, or the
\* head of its aria-label; empty when there is none
LinkTitle(l) ==
    IF l.title # <<>> THEN l.title
    ELSE IF l.childTitle # <<>> THEN l.childTitle
    ELSE IF l.aria # <<>> THEN BeforeComma(l.aria)
    ELSE <<>>

\* document.querySelectorAll('a[href*="#label/"]')
LabelLinks(d) == SelectSeq(d.links, LAMBDA l : Includes(l.href, Route.labelPrefix))

\* the forEach of buildLabelMapFromDOM throws when decodeURIComponent does
BuildThrows(d) ==
    \E i \in 1..Len(LabelLinks(d)) :
        /\ RawIdOf(LabelLinks(d)[i].href) # <<>>
        /\ DecodeThrows(RawIdOf(LabelLinks(d)[i].href))

RECURSIVE BuildFrom(_, _)
BuildFrom(links, map) ==
    IF links = <<>> THEN map
    ELSE LET l == Head(links)
             rawId == RawIdOf(l.href)
             id == PlusToSpace(Decode(rawId))
             title == LinkTitle(l)
         IN IF rawId = <<>> \/ title = <<>> THEN BuildFrom(Tail(links), map)
            ELSE BuildFrom(Tail(links),
                           MapSet(MapSet(map, ToLower(title), id), ToLower(id), id))

buildLabelMapFromDOM(d) == BuildFrom(LabelLinks(d), <<>>)

\* ------------------------------------------------------------------------
\* getUnreadCountFromDOM: [threw, text]
\* ------------------------------------------------------------------------
IsInboxTab(tab) == \/ tab.type = "hash" /\ tab.value = Route.inbox
                   \/ tab.type = "label" /\ ToLower(tab.value) = Word.inboxLower

IsSentTab(tab) == \/ tab.type = "hash" /\ tab.value = Route.sent
                  \/ tab.type = "label" /\ ToLower(tab.value) = Word.sentLower

\* the count a matched primary-view link yields, empty when no pattern does
PrimaryLinkCount(l) ==
    IF l.bsU # <<>> THEN l.bsU
    ELSE IF MatchUnread(l.aria, TRUE) # <<>> THEN MatchUnread(l.aria, TRUE)
    ELSE IF MatchParen(l.aria) # <<>> THEN MatchParen(l.aria)
    ELSE IF MatchParen(l.title) # <<>> THEN MatchParen(l.title)
    ELSE MatchTrailingDigits(l.text)

PrimaryLinkMatches(l, isInbox) ==
    IF isInbox
    THEN EndsWith(l.href, Route.inbox) \/ StartsWith(l.aria, Word.Inbox) \/ StartsWith(l.title, Word.Inbox)
    ELSE \/ StartsWith(l.aria, Word.Sent) \/ StartsWith(l.title, Word.Sent)
         \/ (Includes(l.text, Word.Sent) /\ EndsWith(l.href, Route.sent))

ScrapePrimary(d, isInbox) ==
    LET links == SelectSeq(d.links, LAMBDA l : l.inNav)
        hits == {i \in 1..Len(links) :
                    PrimaryLinkMatches(links[i], isInbox) /\ PrimaryLinkCount(links[i]) # <<>>}
    IN IF ~d.nav \/ hits = {} THEN <<>>
       ELSE PrimaryLinkCount(links[CHOOSE i \in hits : \A j \in hits : i <= j])

\* the label name the category branch looks for
ScrapeLabelName(tab) ==
    IF tab.type = "hash" /\ StartsWith(tab.value, Route.labelPrefix)
    THEN RemoveFirst(tab.value, Route.labelPrefix)
    ELSE tab.value

\* document.querySelector('a[href$="#label/<encoded>"]'): its index in the
\* document's links, 0 when there is none
ExactLink(d, labelName) ==
    LET suffix == Route.labelPrefix \o EncodePlus(labelName)
        hits == {i \in 1..Len(d.links) : EndsWith(d.links[i].href, suffix)}
    IN IF hits = {} THEN 0 ELSE CHOOSE i \in hits : \A j \in hits : i <= j

\* the fuzzy loop over the candidates: 0 no candidate matched, -1 a
\* normalizeLabel call threw, else the index of the link among LabelLinks
RECURSIVE FuzzyFrom(_, _, _)
FuzzyFrom(cands, i, target) ==
    IF i > Len(cands) THEN 0
    ELSE LET c == cands[i]
             hrefLabel == RawIdOf(c.href)
         IN IF c.title # <<>> /\ DecodeThrows(c.title) THEN -1
            ELSE IF c.title # <<>> /\ normalizeLabel(c.title) = target THEN i
            ELSE IF c.aria # <<>> /\ hrefLabel # <<>> /\ DecodeThrows(hrefLabel) THEN -1
            ELSE IF c.aria # <<>> /\ hrefLabel # <<>> /\ normalizeLabel(hrefLabel) = target THEN i
            ELSE FuzzyFrom(cands, i + 1, target)

\* the count of the link the category branch found
LabelLinkCount(l) ==
    IF l.aria # <<>> THEN MatchUnread(l.aria, FALSE) ELSE l.bsU

getUnreadCountFromDOM(d, tab) ==
    IF IsInboxTab(tab) \/ IsSentTab(tab)
    THEN [threw |-> FALSE, text |-> ScrapePrimary(d, IsInboxTab(tab))]
    ELSE LET labelName == ScrapeLabelName(tab)
             exact == ExactLink(d, labelName)
         IN IF exact # 0 THEN [threw |-> FALSE, text |-> LabelLinkCount(d.links[exact])]
            ELSE IF DecodeThrows(labelName) THEN [threw |-> TRUE, text |-> <<>>]
            ELSE LET f == FuzzyFrom(LabelLinks(d), 1, normalizeLabel(labelName))
                 IN IF f = -1 THEN [threw |-> TRUE, text |-> <<>>]
                    ELSE IF f = 0 THEN [threw |-> FALSE, text |-> <<>>]
                    ELSE [threw |-> FALSE, text |-> LabelLinkCount(LabelLinks(d)[f])]

\* ------------------------------------------------------------------------
\* Update batches the interceptor dispatches: sequences of {label, count}
\* ------------------------------------------------------------------------
MkUpdate(label, count) == [label |-> label, count |-> count]

BatchPool == { <<MkUpdate(SystemLabel.inbox, 0), MkUpdate(SystemLabel.starred, 0)>>,
               <<MkUpdate(Sample.label4, 2), MkUpdate(<<"t">>, 2)>>,
               <<MkUpdate(Sample.label4Space, 1)>>,
               <<MkUpdate(Sample.work, 1), MkUpdate(SystemLabel.inbox, 2)>> }

\* what the feed request of one resolution ends in: a network error, a
\* non-OK response, a document without a count, or a count
FetchOutcomes == {[kind |-> k, count |-> 0] : k \in {"error", "notok", "nocount"}}
                 \cup {[kind |-> "count", count |-> n] : n \in 0..MaxCount}

\* The functions of unread.ts depend on the tab, the markup and the batch
\* only; they are tabulated over the modelled inputs, once.
AllTabs == UNION {{l[k] : k \in 1..Len(l)} : l \in TabListPool}

\* getUnreadCountFromDOM(tab) under each markup
ScrapeResults == [d \in DomPool |-> [t \in AllTabs |-> getUnreadCountFromDOM(d, t)]]

\* buildLabelMapFromDOM() under each markup
LabelMaps == [d \in DomPool |->
                [threw |-> BuildThrows(d),
                 map |-> IF BuildThrows(d) THEN <<>> ELSE buildLabelMapFromDOM(d)]]

\* ------------------------------------------------------------------------
\* State
\* ------------------------------------------------------------------------
VARIABLES
    stored,           \* the entry under the current account's key, NoSettings: none
    reqs,             \* chrome.storage.sync requests issued and not yet served, in order
    currentSettings,  \* state.currentSettings, NoSettings standing for null
    barPresent,       \* the element with id TABS_BAR_ID is in the document
    shown,            \* the render pass whose tab elements the bar holds, 0: none
    gen,              \* render passes made so far
    elems,            \* render pass -> its tab elements [tab, hasSpan, text, last, pathA]
    dom,              \* the host's navigation markup
    lastA,            \* the Path A resolution the last step completed, or NoRes
    lastB,            \* the Path B pass the last step made, or NoPass
    legacy,           \* the top-level keys of the store: tabs, labels, theme
    booted,           \* init() has run
    domEmail,         \* extractEmailFromDOM finds the account's address
    currentUserEmail, \* state.currentUserEmail, NoEmail standing for null
    initPromise,      \* state.initPromise is set
    finalizeCalls,    \* calls of finalizeInit made so far
    poller,           \* accountPoller: "none", "running" or "cleared"
    sdk,              \* InboxSDK.load: "idle", "loading", "loaded" or "failed"
    migration,        \* what migrateLegacySettingsIfNeeded found when its promise resolved
    finalRead,        \* what the getSettings of finalizeInit returned
    xhr,              \* the intercepted request: its URL, response text and what load made of it
    sync,             \* chrome.storage.sync: account key -> its entry, NoSettings: none
    defaultTabs,      \* the array DEFAULT_SETTINGS.tabs of the page's storage module
    calls,            \* the storage operations in progress, one per caller
    started,          \* storage operations started so far
    lastOp,           \* the storage operation the last step ended, or NoOp
    obs,              \* the observer's debounce timer, the retry timers, toolbar and bars
    drag              \* the drag in progress, the modal's list and the bar's tabs as rendered

unreadVars == <<stored, reqs, currentSettings, barPresent, shown, gen, elems,
                dom, lastA, lastB>>

initVars == <<legacy, booted, domEmail, currentUserEmail, initPromise, finalizeCalls,
              poller, sdk, migration, finalRead>>

storeVars == <<sync, defaultTabs, calls, started, lastOp>>

vars == <<unreadVars, initVars, xhr, storeVars, obs, drag>>

NoSettings == [tabs |-> <<>>, theme |-> "system", showUnreadCount |-> FALSE, loaded |-> FALSE]
MkSettings(tabs, show) ==
    [tabs |-> tabs, theme |-> "system", showUnreadCount |-> show, loaded |-> TRUE]

\* DEFAULT_SETTINGS
DEFAULT_SETTINGS == MkSettings(<<>>, FALSE)

\* what getSettings resolves with: { ...DEFAULT_SETTINGS, ...stored }
getSettings(entry) == IF entry.loaded THEN entry ELSE DEFAULT_SETTINGS

\* a request to chrome.storage.sync with the value its callback carries on
MkReq(op, val) == [op |-> op, val |-> val]

\* the getSettings calls of the storage listener awaiting their read
pendingReloads == Cardinality({k \in 1..Len(reqs) : reqs[k].op = "reload"})

\* no request intercepted
NoXhr == [state |-> "idle", url |-> <<>>, text |-> <<>>, wellFormed |-> FALSE,
          hasTuple |-> FALSE,
          out |-> [ran |-> FALSE, threw |-> FALSE, dispatched |-> FALSE, updates |-> <<>>]]

\* the accounts of the browser profile
Accounts == { <<"a", "@", "x">>, <<"b", "@", "x">> }

\* the key of an account's entry
getAccountKey(accountId) == <<"a", "c", "c", "o", "u", "n", "t", "_">> \o accountId

\* no tab
NoTab == [id |-> <<>>, title |-> <<>>, type |-> "label", value |-> <<>>]

\* the callers whose storage operations can overlap: handlers of one page,
\* whose account is state.currentUserEmail
Callers == {1, 2}
PageAccount == <<"a", "@", "x">>

\* a caller with no operation in progress
NoCall ==
    [op |-> "none", acct |-> <<>>, pc |-> "idle", tab |-> NoTab, tabs |-> <<>>, index |-> 0,
     settings |-> NoSettings, keys |-> {}, alias |-> FALSE]

\* no storage operation has ended
NoOp ==
    [op |-> "none", acct |-> <<>>, how |-> "none", tab |-> NoTab, text |-> <<>>,
     before |-> NoSettings, after |-> NoSettings]

\* the store holds no account entry and no operation has started
StoreIdle ==
    /\ sync = [k \in {getAccountKey(a) : a \in Accounts} |-> NoSettings]
    /\ defaultTabs = <<>>
    /\ calls = [c \in Callers |-> NoCall]
    /\ started = 0
    /\ lastOp = NoOp

\* no observer callback has run
\* the delays of the two setTimeout calls of content.ts, in milliseconds
DEBOUNCE_MS == 100
RETRY_MS == 500

NoObs == [handle |-> FALSE, timeouts |-> <<>>, retries |-> <<>>, sinceRun |-> DEBOUNCE_MS,
          gap |-> DEBOUNCE_MS, runs |-> 0, toolbar |-> FALSE, bars |-> 0]

\* no drop made by the last step
NoDrop == [done |-> FALSE]

\* nothing dragged (dragSrcEl and modalDragSrcEl null), the modal closed
NoDrag == [src |-> -1, srcLive |-> FALSE, modalSrc |-> -1, listed |-> 0,
           rendered |-> <<>>, drops |-> 0, last |-> NoDrop]

NoRes == [done |-> FALSE]
NoPass == [done |-> FALSE]
Undefined == <<"undefined">>

NoEmail == ""
UserEmail == "user@example.com"

\* the top-level keys of a store no earlier version wrote to
NoLegacy ==
    [tabs |-> <<>>, hasTabs |-> FALSE, labels |-> <<>>, hasLabels |-> FALSE,
     theme |-> "", showUnreadCount |-> FALSE]

\* the elements the bar holds
BarElems == IF barPresent /\ shown # 0 THEN elems[shown] ELSE <<>>

\* ------------------------------------------------------------------------
\* Badge writes
\* ------------------------------------------------------------------------
\* a write that keeps a badge already showing a count
WriteBadgeFirstWins(old, new) == IF old # <<>> THEN old ELSE new

\* countSpan.textContent = value
WriteBadge(old, new) == new

\* count > 0 ? count.toString() : ''
BadgeText(count) == IF count > 0 THEN ToStr(count) ELSE <<>>

SetText(el, value) == [el EXCEPT !.text = WriteBadge(el.text, value), !.last = value]

\* ------------------------------------------------------------------------
\* Path A: updateUnreadCount
\* ------------------------------------------------------------------------
\* labelForFeed as the branches of updateUnreadCount leave it
FeedLabel(tab) ==
    IF tab.type = "label"
    THEN IF ToLower(tab.value) = Word.inboxLower THEN <<>> ELSE tab.value
    ELSE IF tab.type = "hash"
         THEN IF tab.value = Route.inbox THEN <<>>
              ELSE IF tab.value = Route.sent THEN SystemLabel.sent
              ELSE IF StartsWith(tab.value, Route.labelPrefix)
                   THEN RemoveFirst(tab.value, Route.labelPrefix)
                   ELSE <<>>
         ELSE <<>>

\* if (labelForFeed !== undefined)
FeedAttempted(labelForFeed) == labelForFeed # Undefined

\* a feed count of zero stopping the resolution as a positive one does
FeedWritesAnyCount(outcome) == outcome.kind = "count"

\* a feed count of one taken as no count
FeedWritesAboveOne(outcome) == outcome.kind = "count" /\ outcome.count > 1

\* if (count > 0): the feed's count is written and the resolution stops
FeedWrites(outcome) == outcome.kind = "count" /\ outcome.count > 0

\* ------------------------------------------------------------------------
\* renderTabs
\* ------------------------------------------------------------------------
\* updateUnreadCount from the scraper on: the element as the call leaves it
ScrapeInto(el, d) ==
    LET r == ScrapeResults[d][el.tab]
    IN IF r.threw THEN [el EXCEPT !.pathA = "failed"]
       ELSE [SetText(el, r.text) EXCEPT !.pathA = "done"]

\* the element renderTabs creates for a tab: with showUnreadCount it gets
\* an empty count span and updateUnreadCount(tab, tabEl) is called, which
\* runs up to its await of the fetch
NewElem(tab, show, d) ==
    LET el == [tab |-> tab, hasSpan |-> show, text |-> <<>>, last |-> <<>>, pathA |-> "none"]
    IN IF ~show THEN el
       ELSE IF FeedAttempted(FeedLabel(tab)) THEN [el EXCEPT !.pathA = "pending"]
       ELSE ScrapeInto(el, d)

NewElems(tabs, show, d) == [i \in 1..Len(tabs) |-> NewElem(tabs[i], show, d)]

\* A tab element that is out of the document and that no pending
\* updateUnreadCount call holds is unreachable: bar.innerHTML = '' dropped it
tGone == MkTab("gone", "none", <<>>)
Collected == [tab |-> tGone, hasSpan |-> FALSE, text |-> <<>>, last |-> <<>>, pathA |-> "gone"]

\* the elements with render pass sh in the document: the unreachable ones dropped
Sweep(es, sh) ==
    [g \in DOMAIN es |->
        [i \in 1..Len(es[g]) |->
            IF g # sh /\ es[g][i].pathA # "pending" THEN Collected ELSE es[g][i]]]

\* a renderTabs that fills the bar only while it is empty
RenderGuardOnce(bar, settings) == bar /\ settings.loaded /\ shown = 0

\* renderTabs returns at once without a bar or without settings
RenderGuard(bar, settings) == bar /\ settings.loaded

\* renderTabs() with the bar and the settings the caller leaves
RenderTabs(bar, settings) ==
    IF RenderGuard(bar, settings)
    THEN /\ gen' = gen + 1
         /\ shown' = gen + 1
         /\ elems' = Sweep([elems EXCEPT ![gen + 1] =
                              NewElems(settings.tabs, settings.showUnreadCount, dom)], gen + 1)
    ELSE UNCHANGED <<gen, shown, elems>>

\* ------------------------------------------------------------------------
\* Path B: handleUnreadUpdates
\* ------------------------------------------------------------------------
\* updates.forEach(u => updateMap.set(u.label, u.count))
RECURSIVE UpdateMapOf(_, _)
UpdateMapOf(updates, map) ==
    IF updates = <<>> THEN map
    ELSE UpdateMapOf(Tail(updates), MapSet(map, Head(updates).label, Head(updates).count))

\* the static table of system routes
SystemId(value) ==
    CASE value = Route.inbox -> SystemLabel.inbox
      [] value = Route.starred -> SystemLabel.starred
      [] value = Route.drafts -> SystemLabel.drafts
      [] value = Route.sent -> SystemLabel.sent
      [] value = Route.spam -> SystemLabel.spam
      [] value = Route.trash -> SystemLabel.trash
      [] value = Route.all -> SystemLabel.all
      [] OTHER -> <<>>

\* deriving labelId throws when decodeURIComponent does
LabelIdThrows(tab) ==
    /\ tab.type = "hash"
    /\ SystemId(tab.value) = <<>>
    /\ \/ /\ StartsWith(tab.value, Route.labelPrefix)
          /\ DecodeThrows(PlusToSpace(RemoveFirst(tab.value, Route.labelPrefix)))
       \/ /\ ~StartsWith(tab.value, Route.labelPrefix)
          /\ StartsWith(tab.value, Route.searchLabelPrefix)
          /\ DecodeThrows(RemoveFirst(tab.value, Route.searchPrefix))

\* labelId, where deriving it does not throw
LabelIdOf(tab) ==
    IF tab.type = "label" THEN tab.value
    ELSE IF tab.type # "hash" THEN <<>>
    ELSE IF SystemId(tab.value) # <<>> THEN SystemId(tab.value)
    ELSE IF StartsWith(tab.value, Route.labelPrefix)
         THEN Decode(PlusToSpace(RemoveFirst(tab.value, Route.labelPrefix)))
    ELSE IF StartsWith(tab.value, Route.searchLabelPrefix)
         THEN LET raw == Decode(RemoveFirst(tab.value, Route.searchPrefix))
              IN IF StartsWith(raw, Word.labelColon) THEN RemoveFirst(raw, Word.labelColon) ELSE <<>>
    ELSE <<>>

\* resolvedId: labelId through the DOM label map
ResolvedId(domLabelMap, labelId) ==
    IF MapHas(domLabelMap, ToLower(labelId))
    THEN IF MapGet(domLabelMap, ToLower(labelId)) # <<>>
         THEN MapGet(domLabelMap, ToLower(labelId)) ELSE labelId
    ELSE labelId

\* the fuzzy scan made for system identifiers as well
FuzzyForAnyId(resolvedId) == resolvedId # <<>>

\* whether the fuzzy scan of the batch is made after a direct miss
FuzzyAllowed(resolvedId) == resolvedId # <<>> /\ ~StartsWith(resolvedId, <<"^">>)

\* the index of the first entry of the update map whose normalized key
\* equals the normalized target, 0 when there is none
FuzzyIndex(updateMap, resolvedId) ==
    LET hits == {i \in 1..Len(updateMap) : normalize(updateMap[i][1]) = normalize(resolvedId)}
    IN IF hits = {} THEN 0 ELSE CHOOSE i \in hits : \A j \in hits : i <= j

\* count: [found, count], found FALSE standing for undefined
CountFor(updateMap, resolvedId) ==
    IF MapHas(updateMap, resolvedId)
    THEN [found |-> TRUE, count |-> MapGet(updateMap, resolvedId)]
    ELSE IF FuzzyAllowed(resolvedId) /\ FuzzyIndex(updateMap, resolvedId) # 0
         THEN [found |-> TRUE, count |-> updateMap[FuzzyIndex(updateMap, resolvedId)][2]]
         ELSE [found |-> FALSE, count |-> 0]

\* a pass that takes a tab absent from the batch as having no unread items
PassWritesAlways(c) == TRUE

\* if (count !== undefined): whether the pass writes the badge of the tab
PassWrites(c) == c.found

\* updateMap of each batch
UpdateMaps == [b \in BatchPool |-> UpdateMapOf(b, <<>>)]

\* for each tab, markup and batch: whether deriving labelId throws, and count
Counts ==
    [t \in AllTabs |-> [d \in DomPool |-> [b \in BatchPool |->
        IF t.value = <<>> THEN [threw |-> FALSE, found |-> FALSE, count |-> 0]
        ELSE IF LabelIdThrows(t) THEN [threw |-> TRUE, found |-> FALSE, count |-> 0]
        ELSE LET c == CountFor(UpdateMaps[b], ResolvedId(LabelMaps[d].map, LabelIdOf(t)))
             IN [threw |-> FALSE, found |-> c.found, count |-> c.count]]]]

\* the body of tabs.forEach for one element, past the derivation of labelId
ReconcileOne(el, d, updates) ==
    LET c == Counts[el.tab][d][updates]
    IN IF el.tab.value # <<>> /\ PassWrites(c) /\ el.hasSpan
       THEN SetText(el, BadgeText(c.count))
       ELSE el

\* tabs.forEach from element i on: the elements as the loop leaves them,
\* whether it threw, and the elements it reached
RECURSIVE PassFrom(_, _, _, _)
PassFrom(els, i, d, updates) ==
    IF i > Len(els) THEN [els |-> els, threw |-> FALSE, reached |-> i - 1]
    ELSE IF Counts[els[i].tab][d][updates].threw
         THEN [els |-> els, threw |-> TRUE, reached |-> i]
         ELSE PassFrom([els EXCEPT ![i] = ReconcileOne(els[i], d, updates)],
                       i + 1, d, updates)

\* a pass that resolves through the map built when the sidebar was first
\* rendered in full, whatever the markup is now
handleUnreadUpdatesCachedMap(d, bar, els, updates) ==
    IF ~bar THEN [els |-> els, threw |-> FALSE, reached |-> 0]
    ELSE PassFrom(els, 1, domFull, updates)

\* handleUnreadUpdates(updates) on markup d and the bar's elements
handleUnreadUpdates(d, bar, els, updates) ==
    IF LabelMaps[d].threw THEN [els |-> els, threw |-> TRUE, reached |-> 0]
    ELSE IF ~bar THEN [els |-> els, threw |-> FALSE, reached |-> 0]
    ELSE PassFrom(els, 1, d, updates)

\* ------------------------------------------------------------------------
\* Steps of the reconciliation engine
\* ------------------------------------------------------------------------
\* the configurations the storage holds in turn: one tab list of each shape
SettingsPool ==
    {MkSettings(t, sh) : t \in TabListPool \ {<<tBadHash, tWork>>}, sh \in BOOLEAN}

\* renders still to come for what is already under way; it keeps the model
\* within MaxRenders without ever blocking a render that is due
RenderBudget == gen + pendingReloads + (IF barPresent THEN 0 ELSE 1)

\* the rest of updateUnreadCount once the fetch has settled
ResolveA(el, outcome, d) ==
    IF FeedWrites(outcome)
    THEN [el |-> [SetText(el, ToStr(outcome.count)) EXCEPT !.pathA = "done"], scraper |-> FALSE]
    ELSE [el |-> ScrapeInto(el, d), scraper |-> TRUE]

\* the fetch settles and the call writes to the badge found at its position
\* in the bar of that moment, were the span looked up again at write time
FetchStepById(g, i, outcome) ==
    /\ elems[g][i].pathA = "pending"
    /\ LET r == ResolveA(elems[g][i], outcome, dom)
           t == IF shown # 0 /\ i <= Len(elems[shown]) THEN shown ELSE g
       IN /\ elems' = Sweep([elems EXCEPT ![g][i].pathA = r.el.pathA,
                                          ![t][i].text = r.el.text,
                                          ![t][i].last = r.el.last], shown)
          /\ lastA' = [done |-> TRUE, el |-> <<g, i>>, tab |-> elems[g][i].tab,
                       fetch |-> outcome, scraper |-> r.scraper,
                       threw |-> r.el.pathA = "failed", before |-> elems[g][i], after |-> r.el]
    /\ lastB' = NoPass
    /\ UNCHANGED <<stored, reqs, currentSettings, barPresent, shown, gen, dom>>
    /\ UNCHANGED <<initVars, xhr, storeVars, obs, drag>>

\* the fetch of the updateUnreadCount call for element <<g, i>> settles
FetchStep(g, i, outcome) ==
    /\ elems[g][i].pathA = "pending"
    /\ LET r == ResolveA(elems[g][i], outcome, dom)
       IN /\ elems' = Sweep([elems EXCEPT ![g][i] = r.el], shown)
          /\ lastA' = [done |-> TRUE, el |-> <<g, i>>, tab |-> elems[g][i].tab,
                       fetch |-> outcome, scraper |-> r.scraper,
                       threw |-> r.el.pathA = "failed", before |-> elems[g][i], after |-> r.el]
    /\ lastB' = NoPass
    /\ UNCHANGED <<stored, reqs, currentSettings, barPresent, shown, gen, dom>>
    /\ UNCHANGED <<initVars, xhr, storeVars, obs, drag>>

\* the gmailTabs:unreadUpdate listener: handleUnreadUpdates(e.detail)
Dispatch(batch) ==
    /\ LET r == handleUnreadUpdates(dom, barPresent, BarElems, batch)
       IN /\ elems' = IF barPresent /\ shown # 0 THEN [elems EXCEPT ![shown] = r.els] ELSE elems
          /\ lastB' = [done |-> TRUE, batch |-> batch, threw |-> r.threw,
                       reached |-> r.reached, before |-> BarElems]
    /\ lastA' = NoRes
    /\ UNCHANGED <<stored, reqs, currentSettings, barPresent, shown, gen, dom>>
    /\ UNCHANGED <<initVars, xhr, storeVars, obs, drag>>

\* the host re-renders its navigation markup
HostMutatesDom(d) ==
    /\ d # dom
    /\ dom' = d
    /\ lastA' = NoRes /\ lastB' = NoPass
    /\ UNCHANGED <<stored, reqs, currentSettings, barPresent, shown, gen, elems>>
    /\ UNCHANGED <<initVars, xhr, storeVars, obs, drag>>

\* the host re-renders its toolbar area and drops the bar with its elements
HostRemovesBar ==
    /\ barPresent
    /\ RenderBudget < MaxRenders
    /\ barPresent' = FALSE
    /\ shown' = 0
    /\ elems' = Sweep(elems, 0)
    /\ lastA' = NoRes /\ lastB' = NoPass
    /\ UNCHANGED <<stored, reqs, currentSettings, gen, dom>>
    /\ UNCHANGED <<initVars, xhr, storeVars, obs, drag>>

\* attemptInjection with the toolbar found and no bar in the document
AttemptInjection ==
    /\ booted
    /\ ~barPresent
    /\ barPresent' = TRUE
    /\ RenderTabs(TRUE, currentSettings)
    /\ lastA' = NoRes /\ lastB' = NoPass
    /\ UNCHANGED <<stored, reqs, currentSettings, dom>>
    /\ UNCHANGED <<initVars, xhr, storeVars, obs, drag>>

\* a write to the current account's key; chrome.storage.onChanged then
\* calls the listener, which starts getSettings(state.currentUserEmail)
StorageChanged(settings) ==
    /\ settings # stored
    /\ RenderBudget < MaxRenders
    /\ stored' = settings
    /\ reqs' = Append(reqs, MkReq("reload", NoSettings))
    /\ lastA' = NoRes /\ lastB' = NoPass
    /\ UNCHANGED <<currentSettings, barPresent, shown, gen, elems, dom>>
    /\ UNCHANGED <<initVars, xhr, storeVars, obs, drag>>

\* the listener's getSettings resolves: state.currentSettings = settings;
\* renderTabs()
ReloadDone ==
    /\ reqs # <<>> /\ Head(reqs).op = "reload"
    /\ reqs' = Tail(reqs)
    /\ currentSettings' = getSettings(stored)
    /\ RenderTabs(barPresent, getSettings(stored))
    /\ lastA' = NoRes /\ lastB' = NoPass
    /\ UNCHANGED <<stored, barPresent, dom>>
    /\ UNCHANGED <<initVars, xhr, storeVars, obs, drag>>

\* the bar rendered with the loaded settings of the account
InitRendered(settingsPool, domPool) ==
    /\ stored \in settingsPool
    /\ currentSettings = stored
    /\ reqs = <<>>
    /\ dom \in domPool
    /\ barPresent = TRUE
    /\ gen = 1
    /\ shown = 1
    /\ elems = [g \in 1..MaxRenders |->
                  IF g = 1 THEN NewElems(stored.tabs, stored.showUnreadCount, dom) ELSE <<>>]
    /\ lastA = NoRes
    /\ lastB = NoPass
    /\ legacy = NoLegacy
    /\ booted = TRUE
    /\ domEmail = TRUE
    /\ currentUserEmail = UserEmail
    /\ initPromise = TRUE
    /\ finalizeCalls = 1
    /\ poller = "none"
    /\ sdk = "loaded"
    /\ migration = [resolved |-> TRUE, needed |-> FALSE]
    /\ finalRead = [done |-> TRUE, settings |-> stored]

FetchSteps ==
    \E g \in DOMAIN elems : \E i \in 1..Len(elems[g]) : \E o \in FetchOutcomes :
        FetchStep(g, i, o)

\* The reconciliation engine over a fixed configuration with unread counts
\* shown: Path A resolutions, Path B batches, and the host's re-renders
InitUnread == InitRendered({MkSettings(t, TRUE) : t \in TabListPool}, DomPool) /\ xhr = NoXhr /\ StoreIdle /\ obs = NoObs /\ drag = NoDrag

NextUnread ==
    \/ FetchSteps
    \/ \E b \in BatchPool : Dispatch(b)
    \/ \E d \in DomPool : HostMutatesDom(d)
    \/ HostRemovesBar
    \/ AttemptInjection

SpecUnread == InitUnread /\ [][NextUnread]_vars

\* Configuration changes: the storage listener's reload and re-render
InitReload == InitRendered(SettingsPool, {domFull}) /\ xhr = NoXhr /\ StoreIdle /\ obs = NoObs /\ drag = NoDrag

NextReload ==
    \/ \E st \in SettingsPool : StorageChanged(st)
    \/ ReloadDone
    \/ HostRemovesBar
    \/ AttemptInjection
    \/ FetchSteps

SpecReload == InitReload /\ [][NextReload]_vars

\* the listener's read completes and the retry timer of attemptInjection fires
FairReload == SpecReload /\ WF_vars(ReloadDone) /\ WF_vars(AttemptInjection)

\* ------------------------------------------------------------------------
\* Initialisation: content.ts, and the migrations of storage.ts
\* ------------------------------------------------------------------------
\* chrome.storage.sync serves its requests in the order they were issued;
\* each action below is the callback of the request at the head of reqs.

\* top-level keys left by earlier versions and by the welcome page
legTabs == [NoLegacy EXCEPT !.tabs = <<tWork>>, !.hasTabs = TRUE, !.showUnreadCount = TRUE]
legLabels ==
    [NoLegacy EXCEPT !.labels = <<[name |-> Sample.work, id |-> "l1", displayName |-> <<>>]>>,
                     !.hasLabels = TRUE, !.theme = "dark"]
legTheme == [NoLegacy EXCEPT !.theme = "light"]
LegacyPool == {NoLegacy, legTabs, legLabels, legTheme}

\* the entries the account's key can hold when the page loads
StoredPool == {NoSettings, MkSettings(<<tInbox>>, FALSE)}

\* a block that calls finalizeInit whenever it runs
StartsFinalizeAlways(userEmail, promise) == TRUE

\* if (!state.currentUserEmail) { ... state.initPromise || finalizeInit(email) }:
\* whether the block calls finalizeInit
StartsFinalize(userEmail, promise) == userEmail = NoEmail /\ ~promise

\* the block of initializeFromDOM, of its poller and of loadInboxSDK that
\* takes the address; finalizeInit runs up to its first await, where
\* migrateLegacySettingsIfNeeded has issued its existence check
GuardedInit(email) ==
    /\ currentUserEmail' = IF currentUserEmail = NoEmail THEN email ELSE currentUserEmail
    /\ IF StartsFinalize(currentUserEmail, initPromise)
       THEN /\ initPromise' = TRUE
            /\ finalizeCalls' = finalizeCalls + 1
            /\ reqs' = Append(reqs, MkReq("exists", NoSettings))
       ELSE UNCHANGED <<initPromise, finalizeCalls, reqs>>

\* init(): initializeFromDOM(), loadInboxSDK(), attemptInjection()
init(toolbar) ==
    /\ ~booted
    /\ booted' = TRUE
    /\ IF domEmail
       THEN GuardedInit(UserEmail) /\ UNCHANGED poller
       ELSE /\ poller' = "running"
            /\ UNCHANGED <<currentUserEmail, initPromise, finalizeCalls, reqs>>
    /\ sdk' = "loading"
    /\ barPresent' = toolbar
    /\ RenderTabs(toolbar, currentSettings)
    /\ UNCHANGED <<stored, currentSettings, dom, lastA, lastB, xhr, storeVars, obs, drag>>
    /\ UNCHANGED <<legacy, domEmail, migration, finalRead>>

\* the host renders the element that carries the account's address
HostShowsEmail ==
    /\ ~domEmail
    /\ domEmail' = TRUE
    /\ UNCHANGED <<unreadVars, xhr, storeVars, obs, drag>>
    /\ UNCHANGED <<legacy, booted, currentUserEmail, initPromise, finalizeCalls, poller,
                   sdk, migration, finalRead>>

\* a tick of accountPoller that finds the address
PollTick ==
    /\ poller = "running"
    /\ domEmail
    /\ poller' = "found"
    /\ GuardedInit(UserEmail)
    /\ UNCHANGED <<xhr, storeVars, obs, drag, stored, currentSettings, barPresent, shown, gen, elems, dom,
                   lastA, lastB>>
    /\ UNCHANGED <<legacy, booted, domEmail, sdk, migration, finalRead>>

\* setTimeout(() => clearInterval(accountPoller), 60000)
PollerTimeout ==
    /\ poller = "running"
    /\ poller' = "expired"
    /\ UNCHANGED <<unreadVars, xhr, storeVars, obs, drag>>
    /\ UNCHANGED <<legacy, booted, domEmail, currentUserEmail, initPromise, finalizeCalls,
                   sdk, migration, finalRead>>

\* InboxSDK.load resolves
SdkLoaded ==
    /\ sdk = "loading"
    /\ sdk' = "loaded"
    /\ GuardedInit(UserEmail)
    /\ UNCHANGED <<xhr, storeVars, obs, drag, stored, currentSettings, barPresent, shown, gen, elems, dom,
                   lastA, lastB>>
    /\ UNCHANGED <<legacy, booted, domEmail, poller, migration, finalRead>>

\* InboxSDK.load rejects
SdkFailed ==
    /\ sdk = "loading"
    /\ sdk' = "failed"
    /\ UNCHANGED <<unreadVars, xhr, storeVars, obs, drag>>
    /\ UNCHANGED <<legacy, booted, domEmail, currentUserEmail, initPromise, finalizeCalls,
                   poller, migration, finalRead>>

\* what the storage served leaves alone besides the queue and what it names
ServeFrame ==
    /\ lastA' = NoRes /\ lastB' = NoPass
    /\ UNCHANGED <<dom, barPresent, xhr, storeVars, obs, drag>>
    /\ UNCHANGED <<booted, domEmail, currentUserEmail, initPromise, finalizeCalls, poller, sdk>>

Served(op) == reqs # <<>> /\ Head(reqs).op = op

\* the existence check of migrateLegacySettingsIfNeeded is served: with an
\* entry the function returns; without one it issues the read of the
\* top-level keys and returns. Its promise resolves either way, and
\* finalizeInit goes on to migrateWelcomeTheme, which reads 'theme'.
ExistsServed ==
    /\ Served("exists")
    /\ migration' = [resolved |-> TRUE,
                     needed |-> ~stored.loaded /\ (legacy.hasTabs \/ legacy.hasLabels)]
    /\ reqs' = Tail(reqs) \o
               (IF stored.loaded THEN <<>> ELSE <<MkReq("legacy", NoSettings)>>) \o
               <<MkReq("theme", NoSettings)>>
    /\ ServeFrame
    /\ UNCHANGED <<stored, legacy, currentSettings, shown, gen, elems, finalRead>>

\* the tabs the migration writes: items.tabs, or the old labels as tabs
MigratedTabs(items) ==
    IF items.hasLabels /\ items.tabs = <<>>
    THEN [k \in 1..Len(items.labels) |->
            [id |-> items.labels[k].id,
             title |-> IF items.labels[k].displayName # <<>>
                       THEN items.labels[k].displayName ELSE items.labels[k].name,
             type |-> "label",
             value |-> items.labels[k].name]]
    ELSE items.tabs

\* newSettings of the migration
MigratedSettings(items) ==
    [tabs |-> MigratedTabs(items),
     theme |-> IF items.theme # "" THEN items.theme ELSE "system",
     showUnreadCount |-> items.showUnreadCount,
     loaded |-> TRUE]

\* the read of the top-level keys is served: with legacy data, saveSettings
\* starts and issues its getSettings
LegacyServed ==
    /\ Served("legacy")
    /\ reqs' = Tail(reqs) \o
               (IF legacy.hasTabs \/ legacy.hasLabels
                THEN <<MkReq("mig_read", MigratedSettings(legacy))>> ELSE <<>>)
    /\ ServeFrame
    /\ UNCHANGED <<stored, legacy, currentSettings, shown, gen, elems, migration, finalRead>>

\* the getSettings of the migration's saveSettings is served: the write of
\* { ...currentSettings, ...newSettings } is issued
MigReadServed ==
    /\ Served("mig_read")
    /\ reqs' = Tail(reqs) \o <<MkReq("mig_write", Head(reqs).val)>>
    /\ ServeFrame
    /\ UNCHANGED <<stored, legacy, currentSettings, shown, gen, elems, migration, finalRead>>

\* the listener of chrome.storage.onChanged on a change of a relevant key
OnChanged(changed) ==
    IF changed /\ currentUserEmail # NoEmail THEN <<MkReq("reload", NoSettings)>> ELSE <<>>

\* the migration's write is served
MigWriteServed ==
    /\ Served("mig_write")
    /\ stored' = Head(reqs).val
    /\ reqs' = Tail(reqs) \o OnChanged(Head(reqs).val # stored)
    /\ ServeFrame
    /\ UNCHANGED <<legacy, currentSettings, shown, gen, elems, migration, finalRead>>

ValidTheme(t) == t \in {"light", "dark", "system"}

\* the read of 'theme' by migrateWelcomeTheme is served: with a theme,
\* saveSettings(email, { theme }) starts; without one finalizeInit goes on
\* to its getSettings
ThemeServed ==
    /\ Served("theme")
    /\ reqs' = Tail(reqs) \o
               (IF ValidTheme(legacy.theme)
                THEN <<MkReq("th_read", [NoSettings EXCEPT !.theme = legacy.theme])>>
                ELSE <<MkReq("final", NoSettings)>>)
    /\ ServeFrame
    /\ UNCHANGED <<stored, legacy, currentSettings, shown, gen, elems, migration, finalRead>>

\* the getSettings of that saveSettings is served
ThemeReadServed ==
    /\ Served("th_read")
    /\ reqs' = Tail(reqs) \o
               <<MkReq("th_write", [getSettings(stored) EXCEPT !.theme = Head(reqs).val.theme])>>
    /\ ServeFrame
    /\ UNCHANGED <<stored, legacy, currentSettings, shown, gen, elems, migration, finalRead>>

\* its write is served: the callback issues the removal of 'theme', and
\* the listener its reload, in either order
ThemeWriteServed(listenerFirst) ==
    /\ Served("th_write")
    /\ stored' = Head(reqs).val
    /\ reqs' = IF listenerFirst
               THEN Tail(reqs) \o OnChanged(Head(reqs).val # stored) \o
                    <<MkReq("th_remove", NoSettings)>>
               ELSE Tail(reqs) \o <<MkReq("th_remove", NoSettings)>> \o
                    OnChanged(Head(reqs).val # stored)
    /\ ServeFrame
    /\ UNCHANGED <<legacy, currentSettings, shown, gen, elems, migration, finalRead>>

\* the removal is served: migrateWelcomeTheme resolves and finalizeInit
\* issues its getSettings
ThemeRemoveServed(listenerFirst) ==
    /\ Served("th_remove")
    /\ legacy' = [legacy EXCEPT !.theme = ""]
    /\ reqs' = IF listenerFirst
               THEN Tail(reqs) \o OnChanged(legacy.theme # "") \o <<MkReq("final", NoSettings)>>
               ELSE Tail(reqs) \o <<MkReq("final", NoSettings)>> \o OnChanged(legacy.theme # "")
    /\ ServeFrame
    /\ UNCHANGED <<stored, currentSettings, shown, gen, elems, migration, finalRead>>

\* the getSettings of finalizeInit is served:
\* state.currentSettings = settings; renderTabs()
FinalServed ==
    /\ Served("final")
    /\ reqs' = Tail(reqs)
    /\ currentSettings' = getSettings(stored)
    /\ finalRead' = [done |-> TRUE, settings |-> getSettings(stored)]
    /\ RenderTabs(barPresent, getSettings(stored))
    /\ ServeFrame
    /\ UNCHANGED <<stored, legacy, migration>>

\* The page loads for an account whose store is in one of its earlier states
InitLoad ==
    /\ stored \in StoredPool
    /\ legacy \in LegacyPool
    /\ domEmail \in BOOLEAN
    /\ dom = domFull
    /\ reqs = <<>>
    /\ currentSettings = NoSettings
    /\ barPresent = FALSE
    /\ gen = 0
    /\ shown = 0
    /\ elems = [g \in 1..MaxInitRenders |-> <<>>]
    /\ lastA = NoRes
    /\ lastB = NoPass
    /\ booted = FALSE
    /\ currentUserEmail = NoEmail
    /\ initPromise = FALSE
    /\ finalizeCalls = 0
    /\ poller = "none"
    /\ sdk = "idle"
    /\ migration = [resolved |-> FALSE, needed |-> FALSE]
    /\ finalRead = [done |-> FALSE, settings |-> NoSettings]
    /\ xhr = NoXhr /\ StoreIdle /\ obs = NoObs /\ drag = NoDrag

NextLoad ==
    \/ \E toolbar \in BOOLEAN : init(toolbar)
    \/ HostShowsEmail
    \/ PollTick
    \/ PollerTimeout
    \/ SdkLoaded
    \/ SdkFailed
    \/ AttemptInjection
    \/ ExistsServed
    \/ LegacyServed
    \/ MigReadServed
    \/ MigWriteServed
    \/ ThemeServed
    \/ ThemeReadServed
    \/ \E listenerFirst \in BOOLEAN : ThemeWriteServed(listenerFirst)
    \/ \E listenerFirst \in BOOLEAN : ThemeRemoveServed(listenerFirst)
    \/ FinalServed
    \/ ReloadDone

SpecLoad == InitLoad /\ [][NextLoad]_vars

\* ------------------------------------------------------------------------
\* The response decoder of pageWorld.ts
\* ------------------------------------------------------------------------
\* texts of the wire: the anti-hijacking prefix, URL fragments, and the
\* values responses are built from
Wire ==
    [prefix |-> <<")", "]", "}", "'", "\n">>,
     sync |-> <<"/", "s", "y", "n", "c", "/">>,
     mail |-> <<"/", "m", "a", "i", "l", "/", "u", "/">>,
     query |-> <<"?">>,
     http |-> <<"h", "t", "t", "p">>,
     att |-> <<"g", "m", "a", "i", "l", "/", "a", "t", "t", "/">>,
     slash |-> <<"/">>,
     customLabel |-> <<"C", "u", "s", "t", "o", "m", "L", "a", "b", "e", "l">>,
     tuple |-> <<"[", "\"", "C", "u", "s", "t", "o", "m", "L", "a", "b", "e", "l", "\"", ",", "7", "]">>,
     negTuple |-> <<"[", "\"", "L", "a", "b", "e", "l", "_", "4", "\"", ",", "-", "1", "]">>,
     fracTuple |-> <<"[", "\"", "^", "i", "\"", ",", "2", ".", "5", "]">>,
     urlTuple |-> <<"[", "\"", "h", "t", "t", "p", ":", "/", "/", "x", "\"", ",", "3", "]">>,
     noise |-> <<"\"", "x", "\"">>]

\* JSON values are records tagged by t: literals, numbers (sign, integer part, fraction digits
\* without trailing zeros), strings, arrays, objects (members in order)
\* JSON.parse(text) for texts without white space, escapes and exponents;
\* ok FALSE stands for the SyntaxError it throws. Only({e : v \in {x}}) is
\* e with v bound to the value of x, so that x is evaluated once.
JSONparse(text) ==
    LET Only(S) == CHOOSE x \in S : TRUE
        JLit(name) == [t |-> "literal", name |-> name]
        JNum(neg, int, frac) == [t |-> "number", neg |-> neg, int |-> int, frac |-> frac]
        JStr(str) == [t |-> "string", s |-> str]
        JArr(items) == [t |-> "array", items |-> items]
        JObj(members) == [t |-> "object", members |-> members]
        n == Len(text)
        Fail == [ok |-> FALSE, val |-> JLit("null"), next |-> 0]
        At(i, c) == i <= n /\ text[i] = c
        DigitVal(c) == CHOOSE v \in 0..9 : ToStr(v) = <<c>>
        RECURSIVE ToNat(_, _)
        ToNat(ds, acc) ==
            IF ds = <<>> THEN acc ELSE ToNat(Tail(ds), 10 * acc + DigitVal(Head(ds)))
        RECURSIVE StripZeros(_)
        StripZeros(ds) ==
            IF ds # <<>> /\ ds[Len(ds)] = "0" THEN StripZeros(SubSeq(ds, 1, Len(ds) - 1))
            ELSE ds
        Literal(i, w, name) ==
            IF i + Len(w) - 1 <= n /\ SubSeq(text, i, i + Len(w) - 1) = w
            THEN [ok |-> TRUE, val |-> JLit(name), next |-> i + Len(w)] ELSE Fail
        String(i) ==
            LET j == RunEnd(text, i + 1, {text[k] : k \in 1..n} \ {"\"", "\\", "\n"})
            IN IF At(j + 1, "\"")
               THEN [ok |-> TRUE, val |-> JStr(SubSeq(text, i + 1, j)), next |-> j + 2]
               ELSE Fail
        Number(i) ==
            LET neg == At(i, "-")
                a == IF neg THEN i + 1 ELSE i
                b == IF At(a, "0") THEN a ELSE RunEnd(text, a, Digits)
                dot == At(b + 1, ".")
                c == IF dot THEN RunEnd(text, b + 2, Digits) ELSE b
            IN IF b < a \/ (dot /\ c < b + 2) THEN Fail
               ELSE [ok |-> TRUE,
                     val |-> JNum(neg, ToNat(SubSeq(text, a, b), 0),
                                  IF dot THEN StripZeros(SubSeq(text, b + 2, c)) ELSE <<>>),
                     next |-> c + 1]
        RECURSIVE Value(_), Items(_, _), Members(_, _)
        Value(i) ==
            IF i > n THEN Fail
            ELSE IF text[i] = "[" THEN
                    IF At(i + 1, "]") THEN [ok |-> TRUE, val |-> JArr(<<>>), next |-> i + 2]
                    ELSE Items(i + 1, <<>>)
            ELSE IF text[i] = "{" THEN
                    IF At(i + 1, "}") THEN [ok |-> TRUE, val |-> JObj(<<>>), next |-> i + 2]
                    ELSE Members(i + 1, <<>>)
            ELSE IF text[i] = "\"" THEN String(i)
            ELSE IF text[i] \in Digits \cup {"-"} THEN Number(i)
            ELSE IF text[i] = "t" THEN Literal(i, <<"t", "r", "u", "e">>, "true")
            ELSE IF text[i] = "f" THEN Literal(i, <<"f", "a", "l", "s", "e">>, "false")
            ELSE IF text[i] = "n" THEN Literal(i, <<"n", "u", "l", "l">>, "null")
            ELSE Fail
        Items(i, acc) ==
            Only({IF ~v.ok THEN Fail
                  ELSE IF At(v.next, ",") THEN Items(v.next + 1, Append(acc, v.val))
                  ELSE IF At(v.next, "]")
                       THEN [ok |-> TRUE, val |-> JArr(Append(acc, v.val)), next |-> v.next + 1]
                  ELSE Fail :
                  v \in {Value(i)}})
        Members(i, acc) ==
            LET k == IF At(i, "\"") THEN String(i) ELSE Fail
            IN Only({IF ~v.ok THEN Fail
                     ELSE IF At(v.next, ",")
                          THEN Members(v.next + 1, Append(acc, <<k.val.s, v.val>>))
                     ELSE IF At(v.next, "}")
                          THEN [ok |-> TRUE, val |-> JObj(Append(acc, <<k.val.s, v.val>>)),
                                next |-> v.next + 1]
                     ELSE Fail :
                     v \in {IF k.ok /\ At(k.next, ":") THEN Value(k.next + 1) ELSE Fail}})
    IN Only({IF r.ok /\ r.next = n + 1 THEN [ok |-> TRUE, val |-> r.val]
             ELSE [ok |-> FALSE, val |-> JLit("null")] :
             r \in {Value(1)}})

\* parseGmailJson without its try/catch: the SyntaxError leaves it
parseGmailJsonUncaught(text) ==
    LET clean == IF StartsWith(text, Wire.prefix)
                 THEN SubSeq(text, Len(Wire.prefix) + 1, Len(text)) ELSE text
    IN CHOOSE x \in {[threw |-> ~r.ok, data |-> r.val] : r \in {JSONparse(clean)}} : TRUE

\* parseGmailJson(text): the prefix removed, the rest parsed; null when
\* JSON.parse throws
parseGmailJson(text) ==
    LET clean == IF StartsWith(text, Wire.prefix)
                 THEN SubSeq(text, Len(Wire.prefix) + 1, Len(text)) ELSE text
    IN CHOOSE x \in {[threw |-> FALSE,
                       data |-> IF r.ok THEN r.val ELSE [t |-> "literal", name |-> "null"]] :
                      r \in {JSONparse(clean)}} : TRUE

\* a filter that lets only system identifiers through
isValidLabelSystemOnly(label) == StartsWith(label, <<"^">>)

isValidLabel(label) ==
    /\ label # <<>>
    /\ ~Includes(label, Wire.http)
    /\ ~Includes(label, Wire.att)
    /\ ~(Includes(label, Wire.slash) /\ StartsWith(label, Wire.slash))
    /\ ~(Len(label) > 80)

\* findCounts(obj, updates): the updates as the walk of obj leaves them
RECURSIVE findCounts(_, _)
findCounts(obj, updates) ==
    LET RECURSIVE Each(_, _)
        Each(children, acc) ==
            IF children = <<>> THEN acc
            ELSE Each(Tail(children), findCounts(Head(children), acc))
    IN IF obj.t = "array"
       THEN LET a == obj.items
                isTuple == /\ Len(a) >= 2 /\ a[1].t = "string" /\ a[2].t = "number"
                           /\ isValidLabel(a[1].s)
                pushed == IF isTuple
                          THEN Append(updates, [label |-> a[1].s,
                                                count |-> [neg |-> a[2].neg, int |-> a[2].int,
                                                           frac |-> a[2].frac]])
                          ELSE updates
            IN Each(a, pushed)
       ELSE IF obj.t = "object"
       THEN Each([k \in 1..Len(obj.members) |-> obj.members[k][2]], updates)
       ELSE updates

\* processResponse(responseText) with dispatchUnreadUpdate: whether an
\* exception left it, whether the event was dispatched, and its detail
processResponse(responseText) ==
    LET falsy(data) == \/ data.t = "literal" /\ data.name \in {"null", "false"}
                       \/ data.t = "number" /\ data.int = 0 /\ data.frac = <<>>
                       \/ data.t = "string" /\ data.s = <<>>
        Walked(data) ==
            CHOOSE x \in {[ran |-> TRUE, threw |-> FALSE, dispatched |-> Len(updates) > 0,
                           updates |-> updates] : updates \in {findCounts(data, <<>>)}} : TRUE
    IN CHOOSE x \in
         {IF p.threw
          THEN [ran |-> TRUE, threw |-> TRUE, dispatched |-> FALSE, updates |-> <<>>]
          ELSE IF falsy(p.data)
          THEN [ran |-> TRUE, threw |-> FALSE, dispatched |-> FALSE, updates |-> <<>>]
          ELSE Walked(p.data) : p \in {parseGmailJson(responseText)}} : TRUE

\* the responses of the model: a value nested up to MaxDepth levels deep in
\* arrays and objects beside other content, whole, cut short, or behind the
\* prefix; wellFormed and hasTuple say how the text was built
Responses ==
    LET Mk(text, tuple) == [text |-> text, wellFormed |-> TRUE, hasTuple |-> tuple]
        Base == {Mk(Wire.tuple, TRUE), Mk(Wire.negTuple, FALSE), Mk(Wire.fracTuple, FALSE),
                 Mk(Wire.urlTuple, FALSE), Mk(Wire.noise, FALSE)}
        Around(t) ==
            { <<"[">> \o t \o <<"]">>,
              <<"[", "0", ",">> \o t \o <<",">> \o Wire.noise \o <<"]">>,
              <<"[">> \o Wire.noise \o <<",", "5", ",">> \o t \o <<"]">>,
              <<"{", "\"", "a", "\"", ":", "n", "u", "l", "l", ",", "\"", "b", "\"", ":">>
                  \o t \o <<"}">> }
        RECURSIVE Nested(_)
        Nested(d) ==
            IF d = 0 THEN Base
            ELSE Nested(d - 1) \cup
                 UNION {{Mk(w, r.hasTuple) : w \in Around(r.text)} : r \in Nested(d - 1)}
        Whole == Nested(MaxDepth)
    IN Whole
       \cup {[text |-> Wire.prefix \o r.text, wellFormed |-> TRUE, hasTuple |-> r.hasTuple] :
                r \in Whole}
       \cup {[text |-> SubSeq(r.text, 1, Len(r.text) - 1), wellFormed |-> FALSE,
              hasTuple |-> FALSE] : r \in Whole}
       \cup {[text |-> <<>>, wellFormed |-> FALSE, hasTuple |-> FALSE]}

\* the load listener of an intercepted request
XhrLoad ==
    /\ xhr.state = "sent"
    /\ xhr' = [xhr EXCEPT
                 !.state = "loaded",
                 !.out = IF /\ \/ Includes(xhr.url, Wire.sync)
                               \/ Includes(xhr.url, Wire.mail) /\ ~Includes(xhr.url, Wire.query)
                            /\ xhr.text # <<>>
                         THEN processResponse(xhr.text)
                         ELSE NoXhr.out]
    /\ UNCHANGED <<unreadVars, initVars, storeVars, obs, drag>>

\* the host has sent a request, to a sync URL, a mail URL without or with a
\* query, or another URL; the interceptor sees its response load
InitDecode ==
    /\ InitRendered({DEFAULT_SETTINGS}, {domEmpty})
    /\ \E u \in { Wire.sync, Wire.mail \o <<"0", "/">>,
                  Wire.mail \o <<"0", "/">> \o Wire.query \o <<"u", "i">>, Wire.http } :
       \E r \in Responses :
          xhr = [state |-> "sent", url |-> u, text |-> r.text,
                 wellFormed |-> r.wellFormed, hasTuple |-> r.hasTuple, out |-> NoXhr.out]
    /\ StoreIdle /\ obs = NoObs /\ drag = NoDrag

SpecDecode == InitDecode /\ [][XhrLoad]_vars

\* ------------------------------------------------------------------------
\* storage.ts and the handlers of modals.ts that call it (SpecStore)
\* ------------------------------------------------------------------------
\* the texts the modals' inputs hold
Typed ==
    [work |-> <<"W">>,
     labelOnly |-> <<"l", "a", "b", "e", "l", ":">>,
     hash |-> <<"#", "s">>,
     title |-> <<"T">>,
     newTitle |-> <<"N">>,
     gone |-> <<"z">>,
     mailHost |-> <<"m", "a", "i", "l", ".", "g", "o", "o", "g", "l", "e", ".", "c", "o", "m">>]

\* crypto.randomUUID(): an id no other call and no file holds
randomUUID(n) == <<"u">> \o ToStr(n)

\* { ...DEFAULT_SETTINGS, ...stored }: without an entry the result's `tabs` is
\* the array DEFAULT_SETTINGS.tabs itself
Spread(entry, shared) ==
    IF entry.loaded THEN entry ELSE [getSettings(entry) EXCEPT !.tabs = shared]

\* the tab list a call's `settings` object holds
TabsOf(call, shared) == IF call.alias THEN shared ELSE call.settings.tabs

\* the type and value the add-tab handler makes of the trimmed input
AddTarget(value) ==
    LET i == IndexOf(value, <<"#">>)
        rest == SubSeq(value, i + 1, Len(value))
        j == IndexOf(rest, <<"#">>)
    IN IF \/ Includes(value, Wire.http)
          \/ Includes(value, Typed.mailHost)
          \/ StartsWith(value, <<"#">>)
       THEN [type |-> "hash",
             value |-> IF i = 0 THEN value
                       ELSE <<"#">> \o (IF j = 0 THEN rest ELSE SubSeq(rest, 1, j - 1))]
       ELSE [type |-> "label",
             value |-> IF StartsWith(ToLower(value), Word.labelColon)
                       THEN Trim(SubSeq(value, 7, Len(value)))
                       ELSE value]

\* settings.tabs.some(t => t.value === newTab.value)
HasValue(tabs, value) == \E k \in 1..Len(tabs) : tabs[k].value = value

\* addTab without its test of the stored values
addTabAlways(tabs, newTab) == Append(tabs, newTab)

\* addTab after its read: the list it saves, the read list when the value is there
addTab(tabs, newTab) == IF HasValue(tabs, newTab.value) THEN tabs ELSE Append(tabs, newTab)

\* removeTab after its read
removeTab(tabs, tabId) == SelectSeq(tabs, LAMBDA t : t.id # tabId)

\* findIndex(t => t.id === tabId), 0 standing for -1
FindIndex(tabs, tabId) ==
    IF \E k \in 1..Len(tabs) : tabs[k].id = tabId
    THEN CHOOSE k \in 1..Len(tabs) :
            tabs[k].id = tabId /\ \A m \in 1..(k - 1) : tabs[m].id # tabId
    ELSE 0

\* updateTab after its read, with the updates { title } of the edit modal
updateTab(tabs, tabId, title) ==
    IF FindIndex(tabs, tabId) = 0 THEN tabs
    ELSE [tabs EXCEPT ![FindIndex(tabs, tabId)].title = title]

\* { ...currentSettings, ...newSettings } of saveSettings, newSettings holding `keys`
saveSettings(current, newSettings, keys) ==
    [tabs |-> IF "tabs" \in keys THEN newSettings.tabs ELSE current.tabs,
     theme |-> IF "theme" \in keys THEN newSettings.theme ELSE current.theme,
     showUnreadCount |-> IF "showUnreadCount" \in keys THEN newSettings.showUnreadCount
                         ELSE current.showUnreadCount,
     loaded |-> TRUE]

AllKeys == {"tabs", "theme", "showUnreadCount"}

\* the texts the import modal's text area can hold
ImportPool ==
    LET Q(s) == <<"\"">> \o s \o <<"\"">>
        M(k, v) == Q(k) \o <<":">> \o v
        Obj(a, b, c, d) == <<"{">> \o a \o <<",">> \o b \o <<",">> \o c \o <<",">> \o d \o <<"}">>
        Id(s) == M(<<"i", "d">>, s)
        Title(s) == M(<<"t", "i", "t", "l", "e">>, Q(s))
        Type(s) == M(<<"t", "y", "p", "e">>, Q(s))
        Value(s) == M(<<"v", "a", "l", "u", "e">>, Q(s))
        Tabs(v) == M(<<"t", "a", "b", "s">>, v)
        Email(s) == M(<<"e", "m", "a", "i", "l">>, Q(s))
        label == <<"l", "a", "b", "e", "l">>
        hash == <<"h", "a", "s", "h">>
        tabA == Obj(Id(Q(<<"a">>)), Title(<<"L">>), Type(label), Value(Typed.work))
        tabB == Obj(Id(Q(<<"b">>)), Title(<<"S">>), Type(hash), Value(Typed.hash))
        tabA2 == Obj(Id(Q(<<"a">>)), Title(<<"S">>), Type(hash), Value(Typed.hash))
        padded == Obj(Id(Q(<<"c">>)), Title(<<"L">>), Type(label), Value(<<" ">> \o Typed.work))
        blank == Obj(Id(Q(<<"a">>)), Title(<<"L">>), Type(label), Value(<<" ">>))
        blankId == Obj(Id(Q(<<" ">>)), Title(<<"L">>), Type(label), Value(Typed.work))
        numId == Obj(Id(<<"1">>), Title(<<"L">>), Type(label), Value(Typed.work))
        noTitle == Obj(Id(Q(<<"a">>)), Title(<<>>), Type(label), Value(Typed.work))
        badType == Obj(Id(Q(<<"a">>)), Title(<<"L">>), Type(<<"x">>), Value(Typed.work))
        noValue == <<"{">> \o Id(Q(<<"a">>)) \o <<",">> \o Title(<<"L">>) \o <<",">>
                   \o Type(label) \o <<"}">>
        File(v) == <<"{">> \o Tabs(v) \o <<"}">>
        List1(a) == <<"[">> \o a \o <<"]">>
        List2(a, b) == <<"[">> \o a \o <<",">> \o b \o <<"]">>
    IN { File(List2(tabA, tabB)),
         File(List2(tabA, tabA2)),
         File(List1(padded)),
         <<"{">> \o Email(<<"b", "@", "x">>) \o <<",">> \o Tabs(List1(tabB)) \o <<"}">>,
         <<"{">> \o Email(PageAccount) \o <<",">> \o Tabs(List2(tabA, tabB)) \o <<"}">>,
         <<" ">> \o File(List2(tabA, tabB)) \o <<" ">>,
         File(List1(blank)), File(List1(blankId)), File(List1(numId)), File(List1(noTitle)),
         File(List1(badType)), File(List1(noValue)), File(List2(tabA, Q(<<"a">>))),
         File(List1(<<"n", "u", "l", "l">>)), File(List1(<<"[", "]">>)),
         File(Q(<<"a">>)), File(<<"0">>), <<"{", "}">>, <<"[", "]">>,
         <<"n", "u", "l", "l">>, <<"{">> \o Tabs(<<"[">>), <<" ">>, <<>> }

\* o[k] of a parsed object: whether it has the key, and the value of its last member k
JsonHas(o, k) == \E i \in 1..Len(o.members) : o.members[i][1] = k
JsonGet(o, k) ==
    o.members[CHOOSE i \in 1..Len(o.members) :
                 /\ o.members[i][1] = k
                 /\ \A j \in (i + 1)..Len(o.members) : o.members[j][1] # k][2]

\* typeof o[k] === 'string' && o[k].trim()
JsonText(o, k) == JsonHas(o, k) /\ JsonGet(o, k).t = "string" /\ Trim(JsonGet(o, k).s) # <<>>

\* t.type of an entry, "" when it is neither 'label' nor 'hash'
JsonKind(o) ==
    IF ~JsonHas(o, <<"t", "y", "p", "e">>) \/ JsonGet(o, <<"t", "y", "p", "e">>).t # "string"
    THEN ""
    ELSE IF JsonGet(o, <<"t", "y", "p", "e">>).s = <<"l", "a", "b", "e", "l">> THEN "label"
    ELSE IF JsonGet(o, <<"t", "y", "p", "e">>).s = <<"h", "a", "s", "h">> THEN "hash"
    ELSE ""

\* the tests of an entry without the test of its type
ImportEntryAnyType(t) ==
    /\ t.t = "object"
    /\ JsonText(t, <<"i", "d">>)
    /\ JsonText(t, <<"t", "i", "t", "l", "e">>)
    /\ JsonText(t, <<"v", "a", "l", "u", "e">>)

\* the tests the import handler makes of an entry of data.tabs
ImportEntry(t) ==
    /\ t.t = "object"    \* an array passes `typeof t` and fails on t.id
    /\ JsonText(t, <<"i", "d">>)
    /\ JsonText(t, <<"t", "i", "t", "l", "e">>)
    /\ JsonKind(t) # ""
    /\ JsonText(t, <<"v", "a", "l", "u", "e">>)

\* the import modal's confirm handler up to its call of updateTabOrder: what
\* it makes of the text for the account `email`, and the tabs it passes on
ImportOutcome(text, email) ==
    LET jsonStr == Trim(text)
        Truthy(v) ==
            CASE v.t = "literal" -> v.name = "true"
              [] v.t = "number" -> v.int # 0 \/ v.frac # <<>>
              [] v.t = "string" -> v.s # <<>>
              [] OTHER -> TRUE
        Tab(t) == [id |-> JsonGet(t, <<"i", "d">>).s,
                   title |-> JsonGet(t, <<"t", "i", "t", "l", "e">>).s,
                   type |-> JsonKind(t),
                   value |-> JsonGet(t, <<"v", "a", "l", "u", "e">>).s]
        Reject(how) == [how |-> how, tabs |-> <<>>]
        Of(r) ==
            IF ~r.ok THEN Reject("error")
            ELSE IF r.val.t = "literal" /\ r.val.name = "null" THEN Reject("error")
            ELSE IF r.val.t # "object" \/ ~JsonHas(r.val, <<"t", "a", "b", "s">>)
                 THEN Reject("error")
            ELSE LET tabs == JsonGet(r.val, <<"t", "a", "b", "s">>)
                 IN IF ~Truthy(tabs) \/ tabs.t # "array" THEN Reject("error")
                    ELSE IF \E i \in 1..Len(tabs.items) : ~ImportEntry(tabs.items[i])
                         THEN Reject("error")
                    ELSE IF /\ JsonHas(r.val, <<"e", "m", "a", "i", "l">>)
                            /\ Truthy(JsonGet(r.val, <<"e", "m", "a", "i", "l">>))
                            /\ ~ /\ JsonGet(r.val, <<"e", "m", "a", "i", "l">>).t = "string"
                                 /\ JsonGet(r.val, <<"e", "m", "a", "i", "l">>).s = email
                         THEN Reject("mismatch")
                    ELSE [how |-> "valid",
                          tabs |-> [i \in 1..Len(tabs.items) |-> Tab(tabs.items[i])]]
    IN IF jsonStr = <<>> THEN Reject("empty")
       ELSE CHOOSE o \in {Of(r) : r \in {JSONparse(jsonStr)}} : TRUE

\* ImportOutcome over the pool
Imports == [text \in ImportPool |-> [a \in {PageAccount} |-> ImportOutcome(text, a)]]

\* the tabs and the top-level keys the store can hold before the operations
sWork == [id |-> <<"a">>, title |-> <<"L">>, type |-> "label", value |-> Typed.work]
sHash == [id |-> <<"b">>, title |-> <<"S">>, type |-> "hash", value |-> Typed.hash]
StoreLegacyPool ==
    { NoLegacy,
      [NoLegacy EXCEPT !.tabs = <<[sWork EXCEPT !.id = <<"o">>]>>, !.hasTabs = TRUE],
      [NoLegacy EXCEPT !.labels = <<[name |-> Typed.work, id |-> <<"l">>,
                                     displayName |-> <<>>]>>,
                       !.hasLabels = TRUE, !.theme = "dark"] }

\* the variables the storage operations leave alone
StoreFrame ==
    UNCHANGED <<stored, reqs, currentSettings, barPresent, shown, gen, elems, dom, lastA,
                lastB, initVars, xhr, obs, drag>>

\* a handler starts an operation for caller c
Start(c, call) ==
    /\ calls[c] = NoCall
    /\ \A d \in Callers : d < c => calls[d] # NoCall
    /\ started < MaxOps
    /\ calls' = [calls EXCEPT ![c] = call]
    /\ started' = started + 1
    /\ lastOp' = NoOp
    /\ UNCHANGED <<sync, defaultTabs>>
    /\ StoreFrame

\* the operation of caller c ends without a write
End(c, how, result) ==
    /\ calls' = [calls EXCEPT ![c] = NoCall]
    /\ lastOp' = [op |-> calls[c].op, acct |-> calls[c].acct, how |-> how,
                  tab |-> calls[c].tab, text |-> <<>>,
                  before |-> sync[getAccountKey(calls[c].acct)],
                  after |-> result]
    /\ UNCHANGED <<sync, defaultTabs, started>>
    /\ StoreFrame

\* the operation of caller c goes on to its next request
Go(c, call) ==
    /\ calls' = [calls EXCEPT ![c] = call]
    /\ lastOp' = NoOp
    /\ UNCHANGED <<sync, started>>
    /\ StoreFrame

\* #pin-save-btn: addTab(email, title, currentHash, 'hash')
PinSave(c) ==
    \E a \in {PageAccount}, title \in {Typed.title}, currentHash \in {Typed.hash} :
        /\ title # <<>>
        /\ Start(c, [NoCall EXCEPT !.op = "pin", !.acct = a, !.pc = "get",
                                   !.tab = [id |-> randomUUID(started), title |-> title,
                                            type |-> "hash", value |-> currentHash]])

\* the add button of the settings modal, up to its getSettings
AddClick(c) ==
    \E a \in {PageAccount}, title \in {<<>>}, input \in {Typed.work, Typed.labelOnly, Typed.hash} :
        /\ Trim(input) # <<>>
        /\ Start(c, [NoCall EXCEPT !.op = "add", !.acct = a, !.pc = "list",
                                   !.tab = [id |-> randomUUID(started), title |-> Trim(title),
                                            type |-> AddTarget(Trim(input)).type,
                                            value |-> AddTarget(Trim(input)).value]])

\* #edit-save-btn of the edit modal opened for a stored tab
EditSave(c) ==
    \E a \in {PageAccount}, title \in {Typed.newTitle} :
    \E k \in 1..Len(sync[getAccountKey(a)].tabs) :
        /\ title # <<>>
        /\ Start(c, [NoCall EXCEPT !.op = "edit", !.acct = a, !.pc = "get",
                                   !.tab = [sync[getAccountKey(a)].tabs[k]
                                            EXCEPT !.title = Trim(title)]])

\* a remove button or #delete-confirm-btn: removeTab(email, tab.id), for a
\* stored tab or one that is stored no longer
RemoveClick(c) ==
    \E a \in {PageAccount} :
    \E id \in {sync[getAccountKey(a)].tabs[k].id : k \in 1..Len(sync[getAccountKey(a)].tabs)}
              \cup {Typed.gone} :
        Start(c, [NoCall EXCEPT !.op = "remove", !.acct = a, !.pc = "get",
                                !.tab = [NoTab EXCEPT !.id = id]])

\* refreshList of the settings modal, whose up and down buttons reorder
MoveList(c) ==
    \E a \in {PageAccount} :
        Start(c, [NoCall EXCEPT !.op = "move", !.acct = a, !.pc = "list"])

\* #import-confirm-btn with confirm() answered by `yes`: the file is passed
\* to updateTabOrder, or the handler ends with an alert
ImportConfirm(c) ==
    \E a \in {PageAccount}, text \in ImportPool, yes \in BOOLEAN :
        LET outcome == Imports[text][a]
            accepted == outcome.how = "valid" /\ yes
        IN /\ calls[c] = NoCall
           /\ \A d \in Callers : d < c => calls[d] # NoCall
           /\ started < MaxOps
           /\ started' = started + 1
           /\ calls' = IF accepted
                       THEN [calls EXCEPT ![c] = [NoCall EXCEPT !.op = "import", !.acct = a,
                                                               !.pc = "get",
                                                               !.tabs = outcome.tabs]]
                       ELSE calls
           /\ lastOp' = [op |-> "import", acct |-> a,
                         how |-> IF accepted THEN "accepted"
                                 ELSE IF outcome.how = "valid" THEN "declined"
                                 ELSE outcome.how,
                         tab |-> NoTab, text |-> text,
                         before |-> sync[getAccountKey(a)], after |-> sync[getAccountKey(a)]]
           /\ UNCHANGED <<sync, defaultTabs>>
           /\ StoreFrame

\* a theme button or the unread toggle: saveSettings(email, { theme }) or
\* saveSettings(email, { showUnreadCount })
SaveClick(c) ==
    \E a \in {PageAccount} :
        \/ Start(c, [NoCall EXCEPT !.op = "save", !.acct = a, !.pc = "merge",
                                   !.settings = [NoSettings EXCEPT !.theme = "dark"],
                                   !.keys = {"theme"}])
        \/ Start(c, [NoCall EXCEPT !.op = "save", !.acct = a, !.pc = "merge",
                                   !.settings = [NoSettings EXCEPT !.showUnreadCount = TRUE],
                                   !.keys = {"showUnreadCount"}])

\* migrateLegacySettingsIfNeeded(accountId), up to its first get
Migrate(c) ==
    \E a \in {PageAccount} :
        Start(c, [NoCall EXCEPT !.op = "migrate", !.acct = a, !.pc = "exists"])

\* getSettings(accountId) by a caller that only reads
ReadSettings(c) ==
    \E a \in {PageAccount} :
        Start(c, [NoCall EXCEPT !.op = "read", !.acct = a, !.pc = "get"])

\* the getSettings of a handler is served: the add handler looks for the value
\* and calls addTab, the settings list offers its up and down buttons
Listed(c) ==
    LET call == calls[c]
        settings == Spread(sync[getAccountKey(call.acct)], defaultTabs)
    IN /\ call.pc = "list"
       /\ UNCHANGED defaultTabs
       /\ IF call.op = "add"
          THEN IF HasValue(settings.tabs, call.tab.value) THEN End(c, "exists", settings)
               ELSE IF call.tab.type = "hash" /\ call.tab.title = <<>>
                    THEN End(c, "untitled", settings)
               ELSE Go(c, [call EXCEPT
                             !.pc = "get",
                             !.tab = [call.tab EXCEPT
                                        !.title = Trim(IF call.tab.title # <<>>
                                                       THEN call.tab.title ELSE call.tab.value),
                                        !.value = Trim(call.tab.value)]])
          ELSE IF Len(settings.tabs) < 2 THEN End(c, "nothing", settings)
               ELSE \E index \in 2..Len(settings.tabs) :
                       Go(c, [call EXCEPT
                                !.pc = "get", !.index = index,
                                !.tabs = [settings.tabs EXCEPT
                                            ![index - 1] = settings.tabs[index],
                                            ![index] = settings.tabs[index - 1]]])

\* the getSettings of addTab, removeTab, updateTab or updateTabOrder is served,
\* and the operation changes its `settings` and calls saveSettings
GotSettings(c) ==
    LET call == calls[c]
        entry == sync[getAccountKey(call.acct)]
        settings == Spread(entry, defaultTabs)
        Save(tabs, alias) ==
            /\ Go(c, [call EXCEPT !.pc = "merge", !.keys = AllKeys, !.alias = alias,
                                  !.settings = [settings EXCEPT !.tabs = tabs]])
            /\ defaultTabs' = IF alias THEN tabs ELSE defaultTabs
    IN /\ call.pc = "get"
       /\ CASE call.op \in {"pin", "add"} ->
                 IF addTab(settings.tabs, call.tab) = settings.tabs
                 THEN End(c, "duplicate", settings)
                 ELSE Save(addTab(settings.tabs, call.tab), ~entry.loaded)
            [] call.op = "remove" -> Save(removeTab(settings.tabs, call.tab.id), FALSE)
            [] call.op = "edit" ->
                 IF FindIndex(settings.tabs, call.tab.id) = 0
                 THEN End(c, "missing", settings)
                 ELSE Save(updateTab(settings.tabs, call.tab.id, call.tab.title),
                           ~entry.loaded)
            [] call.op \in {"import", "move"} -> Save(call.tabs, FALSE)
            [] OTHER -> End(c, "read", settings)

\* the getSettings of saveSettings is served: it merges and issues the set
Merged(c) ==
    LET call == calls[c]
        current == Spread(sync[getAccountKey(call.acct)], defaultTabs)
        newSettings == [call.settings EXCEPT !.tabs = TabsOf(call, defaultTabs)]
    IN /\ call.pc = "merge"
       /\ Go(c, [call EXCEPT !.pc = "set", !.alias = FALSE,
                             !.settings = saveSettings(current, newSettings,
                                                       call.keys)])
       /\ UNCHANGED defaultTabs

\* the set of saveSettings, were it to write every account's key
WrittenToAll(c) ==
    LET call == calls[c]
    IN /\ call.pc = "set"
       /\ sync' = [k \in DOMAIN sync |-> call.settings]
       /\ calls' = [calls EXCEPT ![c] = NoCall]
       /\ lastOp' = [op |-> call.op, acct |-> call.acct, how |-> "written", tab |-> call.tab,
                     text |-> <<>>,
                     before |-> sync[getAccountKey(call.acct)], after |-> call.settings]
       /\ UNCHANGED <<defaultTabs, started>>
       /\ StoreFrame

\* the set of saveSettings is served
Written(c) ==
    LET call == calls[c]
    IN /\ call.pc = "set"
       /\ sync' = [sync EXCEPT ![getAccountKey(call.acct)] = call.settings]
       /\ calls' = [calls EXCEPT ![c] = NoCall]
       /\ lastOp' = [op |-> call.op, acct |-> call.acct, how |-> "written", tab |-> call.tab,
                     text |-> <<>>,
                     before |-> sync[getAccountKey(call.acct)], after |-> call.settings]
       /\ UNCHANGED <<defaultTabs, started>>
       /\ StoreFrame

\* the get of the account's key by the migration is served
MigrateChecked(c) ==
    LET call == calls[c]
    IN /\ call.pc = "exists"
       /\ UNCHANGED defaultTabs
       /\ IF sync[getAccountKey(call.acct)].loaded
          THEN End(c, "exists", sync[getAccountKey(call.acct)])
          ELSE Go(c, [call EXCEPT !.pc = "legacy"])

\* the get of the top-level keys by the migration is served
MigrateRead(c) ==
    LET call == calls[c]
    IN /\ call.pc = "legacy"
       /\ UNCHANGED defaultTabs
       /\ IF legacy.hasTabs \/ legacy.hasLabels
          THEN Go(c, [call EXCEPT !.pc = "merge", !.keys = AllKeys,
                                  !.settings = MigratedSettings(legacy)])
          ELSE End(c, "nolegacy", sync[getAccountKey(call.acct)])

\* the entries an account's key can hold before the operations
EntryPool == { NoSettings, MkSettings(<<sWork, sHash>>, TRUE) }

\* the entry of the other account, written by its own page
OtherEntry == MkSettings(<<[sWork EXCEPT !.id = <<"w">>]>>, FALSE)

InitStore ==
    /\ \E entry \in EntryPool :
          sync = [k \in {getAccountKey(a) : a \in Accounts} |->
                    IF k = getAccountKey(PageAccount) THEN entry ELSE OtherEntry]
    /\ legacy \in StoreLegacyPool
    /\ sync[getAccountKey(PageAccount)].loaded => legacy = NoLegacy
    /\ defaultTabs = <<>>
    /\ calls = [c \in Callers |-> NoCall]
    /\ started = 0
    /\ lastOp = NoOp
    /\ stored = NoSettings
    /\ currentSettings = NoSettings
    /\ reqs = <<>>
    /\ dom = domEmpty
    /\ barPresent = FALSE
    /\ gen = 0
    /\ shown = 0
    /\ elems = [g \in 1..MaxRenders |-> <<>>]
    /\ lastA = NoRes
    /\ lastB = NoPass
    /\ booted = TRUE
    /\ domEmail = TRUE
    /\ currentUserEmail = UserEmail
    /\ initPromise = TRUE
    /\ finalizeCalls = 1
    /\ poller = "none"
    /\ sdk = "loaded"
    /\ migration = [resolved |-> TRUE, needed |-> FALSE]
    /\ finalRead = [done |-> TRUE, settings |-> NoSettings]
    /\ xhr = NoXhr
    /\ obs = NoObs /\ drag = NoDrag

NextStore ==
    \E c \in Callers :
        \/ PinSave(c)
        \/ AddClick(c)
        \/ EditSave(c)
        \/ RemoveClick(c)
        \/ MoveList(c)
        \/ ImportConfirm(c)
        \/ SaveClick(c)
        \/ Migrate(c)
        \/ ReadSettings(c)
        \/ Listed(c)
        \/ GotSettings(c)
        \/ Merged(c)
        \/ Written(c)
        \/ MigrateChecked(c)
        \/ MigrateRead(c)

SpecStore == InitStore /\ [][NextStore]_vars

\* ------------------------------------------------------------------------
\* content.ts: startObserver and attemptInjection (SpecObserver)
\* ------------------------------------------------------------------------
\* Time is counted in milliseconds.  obs.handle is observerDebounceTimer
\* (non-null or null); obs.timeouts and obs.retries hold, for each timer of
\* setTimeout that has not fired yet, the time left until it is due;
\* obs.sinceRun is the time since the debounced body last ran (counted up
\* to DEBOUNCE_MS), obs.gap its value when the body last ran, obs.runs the
\* runs so far (counted up to two); obs.toolbar says whether one of
\* TOOLBAR_SELECTORS finds a visible element, obs.bars counts the elements
\* with id TABS_BAR_ID in the document.

\* removal of element i of a sequence
Without(seq, i) == SubSeq(seq, 1, i - 1) \o SubSeq(seq, i + 1, Len(seq))

\* the observer's callback without the test of observerDebounceTimer
ObserverCallbackAlways(o) ==
    [o EXCEPT !.handle = TRUE, !.timeouts = Append(@, DEBOUNCE_MS)]

\* the callback of the MutationObserver, called for a change under
\* document.body: it returns at its first line while a timer is pending
ObserverCallback(o) ==
    IF o.handle THEN o
    ELSE [o EXCEPT !.handle = TRUE, !.timeouts = Append(@, DEBOUNCE_MS)]

\* attemptInjection that inserts a bar without looking for an existing one
attemptInjectionAlways(o) ==
    IF o.toolbar
    THEN /\ obs' = [o EXCEPT !.bars = @ + 1]
         /\ barPresent' = TRUE
         /\ RenderTabs(TRUE, currentSettings)
    ELSE /\ obs' = [o EXCEPT !.retries = Append(@, RETRY_MS)]
         /\ UNCHANGED <<barPresent, gen, shown, elems>>

\* attemptInjection(), o being the timers as its caller leaves them
attemptInjection(o) ==
    IF o.toolbar
    THEN IF barPresent
         THEN /\ obs' = o
              /\ UNCHANGED <<barPresent, gen, shown, elems>>
         ELSE /\ obs' = [o EXCEPT !.bars = @ + 1]
              /\ barPresent' = TRUE
              /\ RenderTabs(TRUE, currentSettings)
    ELSE /\ obs' = [o EXCEPT !.retries = Append(@, RETRY_MS)]
         /\ UNCHANGED <<barPresent, gen, shown, elems>>

\* what the timer callbacks leave alone
TimerFrame ==
    /\ lastA' = NoRes /\ lastB' = NoPass
    /\ UNCHANGED <<stored, reqs, currentSettings, dom>>
    /\ UNCHANGED <<initVars, xhr, storeVars, drag>>

\* the debounce timer's callback: observerDebounceTimer = null,
\* attemptInjection(), updateActiveTab()
DebounceFired(i) ==
    /\ i \in 1..Len(obs.timeouts)
    /\ obs.timeouts[i] = 0
    /\ attemptInjection([obs EXCEPT !.handle = FALSE,
                                    !.timeouts = Without(@, i),
                                    !.gap = obs.sinceRun,
                                    !.sinceRun = 0,
                                    !.runs = IF @ < 2 THEN @ + 1 ELSE @])
    /\ TimerFrame

\* a timer of setTimeout(attemptInjection, 500) fires
RetryFired(i) ==
    /\ i \in 1..Len(obs.retries)
    /\ obs.retries[i] = 0
    /\ attemptInjection([obs EXCEPT !.retries = Without(@, i)])
    /\ TimerFrame

\* d milliseconds pass
Tick(d) ==
    LET Left(t) == IF t > d THEN t - d ELSE 0
    IN /\ obs' = [obs EXCEPT !.timeouts = [k \in 1..Len(@) |-> Left(@[k])],
                             !.retries = [k \in 1..Len(@) |-> Left(@[k])],
                             !.sinceRun = IF @ + d < DEBOUNCE_MS THEN @ + d
                                          ELSE DEBOUNCE_MS]
       /\ obs' # obs
       /\ UNCHANGED <<unreadVars, initVars, xhr, storeVars, drag>>

\* the host changes something under document.body
DomMutation ==
    /\ Len(obs.retries) < MaxRetries
    /\ obs' = ObserverCallback(obs)
    /\ UNCHANGED <<unreadVars, initVars, xhr, storeVars, drag>>

\* the host renders its toolbar
ToolbarAppears ==
    /\ ~obs.toolbar
    /\ obs' = ObserverCallback([obs EXCEPT !.toolbar = TRUE])
    /\ UNCHANGED <<unreadVars, initVars, xhr, storeVars, drag>>

\* the removal of the bar by the host, were it not seen by the observer
HostDropsBarUnobserved ==
    /\ barPresent
    /\ RenderBudget < MaxRenders
    /\ barPresent' = FALSE
    /\ shown' = 0
    /\ elems' = Sweep(elems, 0)
    /\ obs' = [obs EXCEPT !.bars = 0]
    /\ lastA' = NoRes /\ lastB' = NoPass
    /\ UNCHANGED <<stored, reqs, currentSettings, gen, dom>>
    /\ UNCHANGED <<initVars, xhr, storeVars, drag>>

\* the host re-renders its toolbar area and drops every bar with its elements
HostDropsBar ==
    /\ barPresent
    /\ RenderBudget < MaxRenders
    /\ barPresent' = FALSE
    /\ shown' = 0
    /\ elems' = Sweep(elems, 0)
    /\ obs' = ObserverCallback([obs EXCEPT !.bars = 0])
    /\ lastA' = NoRes /\ lastB' = NoPass
    /\ UNCHANGED <<stored, reqs, currentSettings, gen, dom>>
    /\ UNCHANGED <<initVars, xhr, storeVars, drag>>

\* the settings an account's key holds when the page starts
ObserverPool == { MkSettings(<<tWork, tStarred>>, FALSE), MkSettings(<<tPctLabel>>, TRUE) }

\* init() has returned and finalizeInit waits for its getSettings: with the
\* toolbar found attemptInjection inserted the bar, otherwise it set its first
\* retry timer; startObserver was called after it
InitObserver ==
    /\ stored \in ObserverPool
    /\ reqs = <<MkReq("final", NoSettings)>>
    /\ currentSettings = NoSettings
    /\ dom = domEmpty
    /\ \E toolbar \in BOOLEAN :
          /\ barPresent = toolbar
          /\ obs = [NoObs EXCEPT !.toolbar = toolbar,
                                 !.bars = IF toolbar THEN 1 ELSE 0,
                                 !.retries = IF toolbar THEN <<>> ELSE <<RETRY_MS>>]
    /\ drag = NoDrag
    /\ gen = 0
    /\ shown = 0
    /\ elems = [g \in 1..MaxRenders |-> <<>>]
    /\ lastA = NoRes
    /\ lastB = NoPass
    /\ legacy = NoLegacy
    /\ booted = TRUE
    /\ domEmail = TRUE
    /\ currentUserEmail = UserEmail
    /\ initPromise = TRUE
    /\ finalizeCalls = 1
    /\ poller = "none"
    /\ sdk = "loaded"
    /\ migration = [resolved |-> TRUE, needed |-> FALSE]
    /\ finalRead = [done |-> FALSE, settings |-> NoSettings]
    /\ xhr = NoXhr
    /\ StoreIdle

NextObserver ==
    \/ DomMutation
    \/ ToolbarAppears
    \/ HostDropsBar
    \/ \E i \in 1..MaxRetries : DebounceFired(i)
    \/ \E i \in 1..MaxRetries + 1 : RetryFired(i)
    \/ \E d \in {50} : Tick(d)
    \/ FinalServed

SpecObserver == InitObserver /\ [][NextObserver]_vars

\* timers fire, time passes and the store answers
FairObserver ==
    /\ SpecObserver
    /\ \A i \in 1..MaxRetries : WF_vars(DebounceFired(i))
    /\ \A i \in 1..MaxRetries + 1 : WF_vars(RetryFired(i))
    /\ WF_vars(\E d \in {50} : Tick(d))
    /\ WF_vars(FinalServed)

\* ------------------------------------------------------------------------
\* dragdrop.ts: drops on the tab bar and in the settings list (SpecDrop)
\* ------------------------------------------------------------------------
\* drag.src is dragSrcEl's dataset.index (-1: dragSrcEl is null) and
\* drag.srcLive says whether that element is still one of the bar's;
\* drag.modalSrc is modalDragSrcEl's dataset.index, drag.listed the number
\* of items the modal's list shows (0: the modal is closed); drag.rendered
\* is the list of tabs the bar's elements were made from; drag.last is the
\* drop the last step completed.

\* what Array.prototype.splice leaves in place of a missing element
tUndefined == MkTab("undefined", "none", <<>>)

\* the tabs renderTabs makes elements for: its forEach throws at an entry
\* that is no object
Rendered(tabs) ==
    LET bad == {k \in 1..Len(tabs) : tabs[k] = tUndefined}
    IN IF bad = {} THEN tabs
       ELSE SubSeq(tabs, 1, (CHOOSE k \in bad : \A m \in bad : k <= m) - 1)

\* const [movedTab] = tabs.splice(oldIndex, 1); if (oldIndex < newIndex)
\* newIndex--; tabs.splice(newIndex, 0, movedTab), on a copy of the list and
\* with indices counted from 0
Reorder(tabs, oldIndex, newIndex) ==
    LET found == oldIndex < Len(tabs)
        movedTab == IF found THEN tabs[oldIndex + 1] ELSE tUndefined
        rest == IF found THEN Without(tabs, oldIndex + 1) ELSE tabs
        target == IF oldIndex < newIndex THEN newIndex - 1 ELSE newIndex
        at == IF target < Len(rest) THEN target ELSE Len(rest)
    IN SubSeq(rest, 1, at) \o <<movedTab>> \o SubSeq(rest, at + 1, Len(rest))

\* what the handlers of drops leave alone
DropFrame ==
    /\ UNCHANGED <<barPresent, shown, gen, elems, dom, lastA, lastB>>
    /\ UNCHANGED <<initVars, xhr, storeVars, obs>>

\* dragstart on element i of the bar
handleDragStart(i) ==
    /\ i \in 0..Len(drag.rendered) - 1
    /\ drag' = [drag EXCEPT !.src = i, !.srcLive = TRUE, !.last = NoDrop]
    /\ UNCHANGED <<stored, reqs, currentSettings>>
    /\ DropFrame

\* the optimistic reorder both drop handlers of the bar make: the list is
\* replaced in state.currentSettings, the bar rendered again and
\* updateTabOrder called
BarDrop(j, after, src) ==
    LET tabs == Reorder(currentSettings.tabs, drag.src, IF after THEN j + 1 ELSE j)
    IN /\ drag.src # -1
       /\ j \in 0..Len(drag.rendered) - 1
       /\ ~(drag.srcLive /\ drag.src = j)
       /\ drag.drops < MaxDrops
       /\ currentSettings' = [currentSettings EXCEPT !.tabs = tabs]
       /\ reqs' = Append(reqs, MkReq("order", [currentSettings EXCEPT !.tabs = tabs]))
       /\ drag' = [drag EXCEPT !.src = src, !.srcLive = FALSE,
                               !.rendered = Rendered(tabs),
                               !.drops = @ + 1,
                               !.last = [done |-> TRUE, where |-> "bar",
                                         before |-> currentSettings.tabs, after |-> tabs]]
       /\ UNCHANGED stored
       /\ DropFrame

\* drop on element j of the bar, on its first or its second half:
\* stopPropagation keeps the event from the document's listener
handleDrop(j, after) == BarDrop(j, after, drag.src)

\* drop elsewhere in the document while element j is marked drop-before or
\* drop-after; dragSrcEl = null at the end
handleSmartDrop(j, after) == BarDrop(j, after, -1)

\* dragend
handleDragEnd ==
    /\ drag.src # -1
    /\ drag' = [drag EXCEPT !.src = -1, !.srcLive = FALSE, !.last = NoDrop]
    /\ UNCHANGED <<stored, reqs, currentSettings>>
    /\ DropFrame

\* the write of updateTabOrder is served, or fails with runtime.lastError;
\* a served write is reported to the onChanged listener, which starts its
\* getSettings
OrderServed(ok) ==
    /\ Served("order")
    /\ stored' = IF ok THEN [getSettings(stored) EXCEPT !.tabs = Head(reqs).val.tabs]
                 ELSE stored
    /\ reqs' = IF ok THEN Tail(reqs) \o <<MkReq("reload", NoSettings)>> ELSE Tail(reqs)
    /\ drag' = [drag EXCEPT !.last = NoDrop]
    /\ UNCHANGED currentSettings
    /\ DropFrame

\* the listener's getSettings resolves: state.currentSettings = settings;
\* renderTabs()
Reloaded ==
    /\ Served("reload")
    /\ reqs' = Tail(reqs)
    /\ currentSettings' = getSettings(stored)
    /\ drag' = [drag EXCEPT !.srcLive = FALSE,
                            !.rendered = Rendered(getSettings(stored).tabs),
                            !.last = NoDrop]
    /\ UNCHANGED stored
    /\ DropFrame

\* another page of the account writes its entry
OtherPageWrites(settings) ==
    /\ settings # stored
    /\ Len(reqs) < MaxDrops
    /\ stored' = settings
    /\ reqs' = Append(reqs, MkReq("reload", NoSettings))
    /\ drag' = [drag EXCEPT !.last = NoDrop]
    /\ UNCHANGED currentSettings
    /\ DropFrame

\* refreshList of the settings modal: the list is filled from getSettings
refreshList ==
    /\ drag.listed # Len(getSettings(stored).tabs)
    /\ drag' = [drag EXCEPT !.listed = Len(getSettings(stored).tabs), !.modalSrc = -1,
                            !.last = NoDrop]
    /\ UNCHANGED <<stored, reqs, currentSettings>>
    /\ DropFrame

\* dragstart on item i of the modal's list
handleModalDragStart(i) ==
    /\ i \in 0..drag.listed - 1
    /\ drag' = [drag EXCEPT !.modalSrc = i, !.last = NoDrop]
    /\ UNCHANGED <<stored, reqs, currentSettings>>
    /\ DropFrame

\* drop on item j of the modal's list, on its lower or its upper half:
\* getSettings, the reorder, updateTabOrder, refreshList, getSettings,
\* renderTabs
handleModalDrop(j, below) ==
    LET settings == getSettings(stored)
        newTabs == Reorder(settings.tabs, drag.modalSrc, IF below THEN j + 1 ELSE j)
    IN /\ drag.modalSrc # -1
       /\ j \in 0..drag.listed - 1
       /\ drag.modalSrc # j
       /\ drag.drops < MaxDrops
       /\ stored' = [settings EXCEPT !.tabs = newTabs]
       /\ reqs' = Append(reqs, MkReq("reload", NoSettings))
       /\ currentSettings' = [settings EXCEPT !.tabs = newTabs]
       /\ drag' = [drag EXCEPT !.modalSrc = -1, !.srcLive = FALSE,
                               !.listed = Len(newTabs),
                               !.rendered = Rendered(newTabs),
                               !.drops = @ + 1,
                               !.last = [done |-> TRUE, where |-> "modal",
                                         before |-> settings.tabs, after |-> newTabs]]
       /\ DropFrame

\* the entries of the account: three tabs, and two of them
DropPool == { MkSettings(<<tInbox, tWork, tStarred>>, FALSE),
              MkSettings(<<tInbox, tWork>>, FALSE) }

InitDrop ==
    /\ InitRendered(DropPool, {domEmpty})
    /\ xhr = NoXhr /\ StoreIdle /\ obs = NoObs
    /\ drag = [NoDrag EXCEPT !.rendered = stored.tabs]

NextDrop ==
    \/ \E i \in 0..2 : handleDragStart(i)
    \/ \E j \in 0..2, after \in BOOLEAN : handleDrop(j, after)
    \/ \E j \in 0..2, after \in BOOLEAN : handleSmartDrop(j, after)
    \/ handleDragEnd
    \/ \E ok \in BOOLEAN : OrderServed(ok)
    \/ Reloaded
    \/ \E st \in DropPool : OtherPageWrites(st)
    \/ refreshList
    \/ \E i \in 0..2 : handleModalDragStart(i)
    \/ \E j \in 0..2, below \in BOOLEAN : handleModalDrop(j, below)

SpecDrop == InitDrop /\ [][NextDrop]_vars

\* ------------------------------------------------------------------------
\* Properties of Path A and Path B (SpecUnread)
\* ------------------------------------------------------------------------
FeedZero(o) == o.kind = "count" /\ o.count = 0

FeedResolvable(tab) ==
    tab.type = "hash" => (tab.value = Route.inbox \/ StartsWith(tab.value, Route.labelPrefix))

\* C2: no feed request is in flight for a ViewTarget shortcut whose route is
\* neither the inbox route nor a category sub-route.
C2_NoFetchForOtherRoutes ==
    \A g \in DOMAIN elems : \A i \in 1..Len(elems[g]) :
        elems[g][i].pathA = "pending" => FeedResolvable(elems[g][i].tab)

\* C3: every badge holds the value of the most recent write to it, from
\* whichever path.
C3_LastWriteWins ==
    \A g \in DOMAIN elems : \A i \in 1..Len(elems[g]) :
        elems[g][i].text = elems[g][i].last

\* a Path A resolution, not cancelled by the batch that wrote 2 before it,
\* overwrote that 2 with the lower count 1
C3_Witness ==
    lastA.done /\ lastA.before.text = <<"2">> /\ lastA.after.text = <<"1">>

\* the batch has an entry for the tab, by direct lookup or by fuzzy scan
HasMatch(d, tab, batch) == ~LabelMaps[d].threw /\ Counts[tab][d][batch].found

\* C6: a batch with no entry matching a rendered shortcut leaves that
\* shortcut's badge text as it was before the batch.
C6_UnmatchedUntouched ==
    lastB.done =>
        \A i \in 1..Len(lastB.before) :
            ~HasMatch(dom, lastB.before[i].tab, lastB.batch) =>
                BarElems[i].text = lastB.before[i].text

\* a badge showing a count came through a batch that did not mention it
C6_Witness ==
    /\ lastB.done
    /\ \E i \in 1..Len(lastB.before) :
          /\ ~HasMatch(dom, lastB.before[i].tab, lastB.batch)
          /\ lastB.before[i].text # <<>>
          /\ BarElems[i].text = lastB.before[i].text

\* C7: every dispatched batch gets one full pass that runs to completion:
\* every rendered shortcut is scanned.
C7_EveryPassComplete ==
    lastB.done =>
        (~lastB.threw /\ (barPresent => lastB.reached = Len(lastB.before)))

\* C9: no entry point of the core lets an exception or a rejected promise
\* escape.
C9_NothingThrows ==
    /\ lastA.done => ~lastA.threw
    /\ lastB.done => ~lastB.threw

\* C10: a failure while reconciling one shortcut in a pass does not keep the
\* shortcuts after it from being reconciled.
C10_OthersReconciled ==
    (lastB.done /\ lastB.threw /\ barPresent) => lastB.reached = Len(lastB.before)

\* ------------------------------------------------------------------------
\* Properties of the configuration reload (FairReload)
\* ------------------------------------------------------------------------
\* the bar holds one element per stored shortcut, in order
BarShowsStored ==
    /\ barPresent /\ shown # 0
    /\ Len(elems[shown]) = Len(stored.tabs)
    /\ \A i \in 1..Len(stored.tabs) : elems[shown][i].tab = stored.tabs[i]

\* Path A was started for every element of the bar
PathAStartedForAll == \A i \in 1..Len(BarElems) : BarElems[i].pathA # "none"

C4_FinalizeOnce == finalizeCalls <= 1

\* the poller found the address and the SDK loaded, after finalizeInit had
\* been called
C4_Witness == finalizeCalls = 1 /\ poller = "found" /\ sdk = "loaded"

\* C5: once the promise of migrateLegacySettingsIfNeeded has resolved with a
\* migration to make, the getSettings of finalizeInit returns the migrated
\* tabs.
C5_MigratedBeforeRead ==
    (finalRead.done /\ migration.resolved /\ migration.needed) =>
        finalRead.settings.tabs = MigratedTabs(legacy)

\* ------------------------------------------------------------------------
\* Further properties of Path A (SpecUnread)
\* ------------------------------------------------------------------------
\* the feed request ended without a count: a network error, a non-OK
\* response, or a document without a usable fullcount element
FeedNull(o) == o.kind \in {"error", "notok", "nocount"}

\* C11: when the feed yields no count, the Scraper is invoked after it and
\* the badge ends holding exactly the Scraper's result, the empty string
\* included.
C11_ScraperResultWritten ==
    (lastA.done /\ FeedNull(lastA.fetch)) =>
        /\ lastA.scraper
        /\ ~lastA.threw
        /\ lastA.after.text = ScrapeResults[dom][lastA.tab].text

\* C12: a positive feed count n is written to the badge as the decimal text
\* of n, and the Scraper is not invoked in that resolution.
C12_PositiveCountWritten ==
    (lastA.done /\ lastA.fetch.kind = "count" /\ lastA.fetch.count > 0) =>
        (~lastA.scraper /\ lastA.after.text = ToStr(lastA.fetch.count))

\* a resolution whose feed count was 1 wrote "1" over an empty badge
\* although the sidebar markup shows another count for the shortcut
C12_Witness ==
    /\ lastA.done /\ lastA.fetch.kind = "count" /\ lastA.fetch.count = 1
    /\ ~lastA.scraper
    /\ lastA.before.text = <<>> /\ lastA.after.text = <<"1">>
    /\ ScrapeResults[dom][lastA.tab].text \notin {<<>>, <<"1">>}

\* ------------------------------------------------------------------------
\* Further properties of Path B (SpecUnread)
\* ------------------------------------------------------------------------
\* two identifiers that differ in nothing but letter case and in which
\* separator (space, underscore, hyphen, slash) stands at a position
Cosmetic(a, b) ==
    /\ Len(a) = Len(b)
    /\ \A j \in 1..Len(a) :
          \/ LowerChar(a[j]) = LowerChar(b[j])
          \/ {a[j], b[j]} \subseteq {" ", "_", "-", "/"}

\* the sidebar shows the label the tab names under the internal identifier x
ShownAs(d, tab, x) ==
    /\ tab.type = "label"
    /\ \E k \in 1..Len(d.links) :
          /\ d.links[k].href = Route.labelPrefix \o x
          /\ ToLower(d.links[k].title) = ToLower(tab.value)

\* C13: after a batch, a shortcut that the Identity Map resolves to X shows
\* the batch's count for X when the batch has an entry for X; when it has
\* none but has an entry differing from X only cosmetically, it shows that
\* entry's count.
C13_MappedCountWritten ==
    lastB.done =>
        \A i \in 1..Len(lastB.before) : \A k \in 1..Len(dom.links) :
            LET x == RemoveFirst(dom.links[k].href, Route.labelPrefix)
                b == lastB.batch
                direct == {j \in 1..Len(b) : b[j].label = x}
                fuzzy == {j \in 1..Len(b) : Cosmetic(b[j].label, x)}
            IN ShownAs(dom, lastB.before[i].tab, x) =>
                  /\ \A j \in direct : BarElems[i].text = ToStr(b[j].count)
                  /\ direct = {} =>
                        \A j \in fuzzy : BarElems[i].text = ToStr(b[j].count)

\* the system pseudo-identifier of a tab that names a system route
SystemIdOfTab(tab) == IF tab.type = "hash" THEN SystemId(tab.value) ELSE <<>>

\* C14: a shortcut resolved to a system pseudo-identifier is matched by the
\* direct lookup only; a batch without an entry of exactly that identifier
\* leaves its badge unchanged, whatever similar identifiers the batch holds.
C14_SystemIdDirectOnly ==
    lastB.done =>
        \A i \in 1..Len(lastB.before) :
            LET id == SystemIdOfTab(lastB.before[i].tab)
            IN (id # <<>> /\ \A j \in 1..Len(lastB.batch) : lastB.batch[j].label # id) =>
                  BarElems[i].text = lastB.before[i].text

\* a completed pass reached the starred shortcut with a batch that holds "t"
\* but not "^t", and the badge kept the count it showed
C14_Witness ==
    /\ lastB.done /\ ~lastB.threw
    /\ \E i \in 1..Len(lastB.before) :
          /\ lastB.reached >= i
          /\ SystemIdOfTab(lastB.before[i].tab) = SystemLabel.starred
          /\ \E j \in 1..Len(lastB.batch) :
                normalize(lastB.batch[j].label) = normalize(SystemLabel.starred)
          /\ \A j \in 1..Len(lastB.batch) : lastB.batch[j].label # SystemLabel.starred
          /\ lastB.before[i].text = <<"1">>
          /\ BarElems[i].text = <<"1">>

\* C15: a batch entry with count 0 for the system identifier of a shortcut
\* empties that shortcut's badge, whatever it showed before.
C15_ZeroEmptiesBadge ==
    lastB.done =>
        \A i \in 1..Len(lastB.before) : \A j \in 1..Len(lastB.batch) :
            (/\ SystemIdOfTab(lastB.before[i].tab) # <<>>
             /\ lastB.batch[j].label = SystemIdOfTab(lastB.before[i].tab)
             /\ lastB.batch[j].count = 0) =>
                BarElems[i].text = <<>>

\* ------------------------------------------------------------------------
\* Properties of the response decoder (SpecDecode)
\* ------------------------------------------------------------------------
\* C16: every update the decoder emits has a count that is a non-negative
\* integer.
C16_CountsNonNegativeIntegers ==
    xhr.state = "loaded" =>
        \A k \in 1..Len(xhr.out.updates) :
            LET c == xhr.out.updates[k].count
            IN c.frac = <<>> /\ (c.neg => c.int = 0)

\* C17: the decoder throws for no response text; for a text that does not
\* parse it emits no update and dispatches no batch.
C17_DecoderNeverThrows ==
    xhr.state = "loaded" =>
        /\ ~xhr.out.threw
        /\ ~xhr.wellFormed => (xhr.out.updates = <<>> /\ ~xhr.out.dispatched)

\* the decoder ran on a response cut short inside a nested structure
C17_Witness ==
    /\ xhr.state = "loaded" /\ xhr.out.ran /\ ~xhr.wellFormed
    /\ Len(xhr.text) > Len(Wire.tuple)
    /\ ~xhr.out.threw /\ ~xhr.out.dispatched

\* C18: from a response holding the tuple ["CustomLabel", 7] at any depth
\* inside arrays and objects, beside any other content, the decoder emits
\* an update with label "CustomLabel" and count 7.
C18_NestedTupleFound ==
    (xhr.state = "loaded" /\ xhr.out.ran /\ xhr.hasTuple) =>
        /\ xhr.out.dispatched
        /\ \E k \in 1..Len(xhr.out.updates) :
              xhr.out.updates[k] =
                  [label |-> Wire.customLabel, count |-> [neg |-> FALSE, int |-> 7, frac |-> <<>>]]

\* the tuple was found MaxDepth levels deep, inside an object that lies in
\* an array after another tuple, behind the prefix
C18_Witness ==
    /\ xhr.state = "loaded" /\ xhr.out.ran /\ xhr.hasTuple
    /\ StartsWith(xhr.text, Wire.prefix \o <<"[">> \o Wire.noise \o <<",", "5", ",", "{">>)
    /\ Len(xhr.out.updates) >= 2
    /\ xhr.out.updates[Len(xhr.out.updates)].label = Wire.customLabel

\* ------------------------------------------------------------------------
\* The Identity Map of a pass and the Scraper's category branch (SpecUnread)
\* ------------------------------------------------------------------------
\* C19: a pass resolves identifiers through the map of the markup as it is
\* during the pass only: a label shortcut's badge is changed by a pass only
\* where a batch entry names the label itself or the internal identifier
\* under which the current markup shows the label, as it stands or as the
\* pass's fuzzy scan takes it.
C19_MapFromCurrentDom ==
    lastB.done =>
        \A i \in 1..Len(lastB.before) :
            LET tab == lastB.before[i].tab
            IN (tab.type = "label" /\ BarElems[i].text # lastB.before[i].text) =>
                  \E j \in 1..Len(lastB.batch) :
                      \/ normalize(lastB.batch[j].label) = normalize(tab.value)
                      \/ \E k \in 1..Len(dom.links) :
                            LET x == RemoveFirst(dom.links[k].href, Route.labelPrefix)
                            IN /\ ShownAs(dom, tab, x)
                               /\ normalize(lastB.batch[j].label) = normalize(x)

\* the badge of "Work" got its 2 through the map of the full sidebar; the
\* sidebar then lost its links, and a completed pass whose batch names the
\* old internal identifier left the badge alone
C19_Witness ==
    /\ lastB.done /\ ~lastB.threw /\ dom = domEmpty
    /\ lastB.batch = <<MkUpdate(Sample.label4Space, 1)>>
    /\ \E i \in 1..Len(lastB.before) :
          /\ lastB.reached >= i
          /\ lastB.before[i].tab = tWork
          /\ lastB.before[i].text = <<"2">>
          /\ BarElems[i].text = <<"2">>

\* C20: for a category target whose sidebar link is found, the Scraper
\* returns the count of the accessible name's digit pattern when it matches,
\* and the text of the nested small badge otherwise.
C20_AriaThenBadge ==
    (lastA.done /\ lastA.scraper /\ ~lastA.threw) =>
        \A k \in 1..Len(dom.links) :
            LET l == dom.links[k]
                suffix == Route.labelPrefix \o EncodePlus(ScrapeLabelName(lastA.tab))
                count == MatchUnread(l.aria, FALSE)
            IN (/\ ~IsInboxTab(lastA.tab) /\ ~IsSentTab(lastA.tab)
                /\ EndsWith(l.href, suffix)
                /\ \A j \in 1..(k - 1) : ~EndsWith(dom.links[j].href, suffix)) =>
                   lastA.after.text = IF count # <<>> THEN count ELSE l.bsU

\* ------------------------------------------------------------------------
\* Properties of the stored settings (SpecStore)
\* ------------------------------------------------------------------------
\* the tabs stored for an account
StoredTabs(a) == sync[getAccountKey(a)].tabs

\* C21: after any sequence of add, pin, edit, reorder, import and migration
\* operations, every tab stored for an account has a non-empty value
C21_StoredValuesNonEmpty ==
    \A a \in Accounts : \A k \in 1..Len(StoredTabs(a)) : StoredTabs(a)[k].value # <<>>

\* C22: after any sequence of add, remove, edit, reorder, import and migration
\* operations, no two tabs stored for the same account share an id
C22_StoredIdsUnique ==
    \A a \in Accounts : \A j, k \in 1..Len(StoredTabs(a)) :
        StoredTabs(a)[j].id = StoredTabs(a)[k].id => j = k

\* C23: editing a tab's display title never changes that tab's id, value, type
\* or position, and changes no other tab: the write of an edit leaves the
\* stored list as it was but for the title of the edited tab
C23_EditChangesTitleOnly ==
    (lastOp.op = "edit" /\ lastOp.how = "written") =>
        /\ Len(lastOp.after.tabs) = Len(lastOp.before.tabs)
        /\ \A k \in 1..Len(lastOp.after.tabs) :
              \/ lastOp.after.tabs[k] = lastOp.before.tabs[k]
              \/ /\ lastOp.before.tabs[k].id = lastOp.tab.id
                 /\ lastOp.after.tabs[k] =
                       [lastOp.before.tabs[k] EXCEPT !.title = lastOp.tab.title]

\* C24: migrateLegacySettingsIfNeeded writes an account entry only when no
\* entry exists for the account and legacy top-level tabs or labels exist: its
\* write never replaces an entry, and without legacy data it writes nothing
C24_MigrationWritesOnlyNewEntry ==
    (lastOp.op = "migrate" /\ lastOp.how = "written") =>
        /\ ~lastOp.before.loaded
        /\ legacy.hasTabs \/ legacy.hasLabels

\* C25: addTab never stores a second tab whose value equals the trimmed value
\* it was given: the list it writes holds that value once, and when it finds
\* the value among the account's tabs it ends with the entry as it was
C25_AddTabKeepsValuesUnique ==
    /\ (lastOp.op \in {"pin", "add"} /\ lastOp.how = "written") =>
          Cardinality({k \in 1..Len(lastOp.after.tabs) :
                          lastOp.after.tabs[k].value = Trim(lastOp.tab.value)}) = 1
    /\ (lastOp.op \in {"pin", "add"} /\ lastOp.how = "duplicate") =>
          sync[getAccountKey(lastOp.acct)] = lastOp.before

\* a pin of a view that a stored tab already points at has ended
C25_Witness ==
    /\ lastOp.op = "pin" /\ lastOp.how = "duplicate"
    /\ lastOp.before.loaded
    /\ HasValue(StoredTabs(PageAccount), Typed.hash)

\* C26: removeTab removes exactly the tab with the given id and leaves every
\* other tab and their order unchanged: its write leaves the stored list
\* without the tabs of that id and otherwise as it was, the same list when no
\* tab has the id
C26_RemoveTabRemovesOnlyThatTab ==
    (lastOp.op = "remove" /\ lastOp.how = "written") =>
        lastOp.after.tabs = SelectSeq(lastOp.before.tabs, LAMBDA t : t.id # lastOp.tab.id)

\* C27: getSettings for an account that has no stored entry returns the
\* default settings: the two default tabs Inbox and Sent, the theme 'system'
\* and showUnreadCount true
C27_DefaultsForNewAccount ==
    (lastOp.op = "read" /\ lastOp.how = "read" /\ ~lastOp.before.loaded) =>
        /\ Len(lastOp.after.tabs) = 2
        /\ lastOp.after.tabs[1].value = Route.inbox
        /\ lastOp.after.tabs[2].value = Route.sent
        /\ lastOp.after.theme = "system"
        /\ lastOp.after.showUnreadCount = TRUE

\* the condition C28 puts on an import, over the pool of texts: the text parses
\* to data with a tabs array in which every entry is an object with a
\* non-empty string id, title and value and a type of 'label' or 'hash'
WellFormedImport ==
    [text \in ImportPool |->
        LET NonEmpty(o, k) ==
                JsonHas(o, k) /\ JsonGet(o, k).t = "string" /\ JsonGet(o, k).s # <<>>
            Entry(e) ==
                /\ e.t = "object"
                /\ NonEmpty(e, <<"i", "d">>)
                /\ NonEmpty(e, <<"t", "i", "t", "l", "e">>)
                /\ NonEmpty(e, <<"v", "a", "l", "u", "e">>)
                /\ NonEmpty(e, <<"t", "y", "p", "e">>)
                /\ JsonGet(e, <<"t", "y", "p", "e">>).s
                      \in {<<"l", "a", "b", "e", "l">>, <<"h", "a", "s", "h">>}
            Tabs(d) == JsonGet(d, <<"t", "a", "b", "s">>)
        IN CHOOSE b \in { /\ r.ok
                          /\ r.val.t = "object"
                          /\ JsonHas(r.val, <<"t", "a", "b", "s">>)
                          /\ Tabs(r.val).t = "array"
                          /\ \A i \in 1..Len(Tabs(r.val).items) : Entry(Tabs(r.val).items[i]) :
                          r \in {JSONparse(Trim(text))} } : TRUE]

\* C28: an import is applied only if the parsed data has a tabs array in which
\* every entry is an object with a non-empty string id, title and value and a
\* type of 'label' or 'hash'; any other input is rejected with an error and
\* the stored settings are unchanged
C28_ImportOnlyWellFormed ==
    /\ (lastOp.op = "import" /\ lastOp.how = "accepted") => WellFormedImport[lastOp.text]
    /\ (lastOp.op = "import" /\ lastOp.how # "written" /\ ~WellFormedImport[lastOp.text]) =>
          /\ lastOp.how \in {"error", "empty"}
          /\ sync[getAccountKey(lastOp.acct)] = lastOp.before
    /\ (lastOp.op = "import" /\ lastOp.how = "written") =>
          \A k \in 1..Len(lastOp.after.tabs) :
              /\ lastOp.after.tabs[k].id # <<>>
              /\ lastOp.after.tabs[k].title # <<>>
              /\ lastOp.after.tabs[k].value # <<>>
              /\ lastOp.after.tabs[k].type \in {"label", "hash"}

\* a file whose text parses and holds an entry that fails the schema has been
\* rejected for an account that has tabs stored
C28_Witness ==
    /\ lastOp.op = "import" /\ lastOp.how = "error"
    /\ Len(lastOp.text) > 20
    /\ ~WellFormedImport[lastOp.text]
    /\ StoredTabs(lastOp.acct) = <<sWork, sHash>>

\* C30: tab configurations are independent per account: no add, remove, edit,
\* reorder, import or settings-save operation performed for one account ever
\* changes the settings stored for another account
C30_OtherAccountUntouched ==
    \A b \in Accounts \ {PageAccount} : sync[getAccountKey(b)] = OtherEntry

\* an operation for the page's account has changed that account's entry
C30_Witness ==
    /\ lastOp.how = "written" /\ lastOp.acct = PageAccount
    /\ lastOp.op \in {"pin", "add", "remove", "edit", "move", "import", "save"}
    /\ lastOp.before # lastOp.after
    /\ sync[getAccountKey(PageAccount)] = lastOp.after
    /\ lastOp.after # OtherEntry

\* C29: the work started by the MutationObserver is debounced: at most one
\* debounce timer is pending at any time, and the debounced body
\* (attemptInjection and updateActiveTab) runs no sooner than 100 ms after
\* its last run, so at most 10 times in any second, however many changes of
\* the document there are.
C29_ObserverDebounced ==
    /\ Len(obs.timeouts) <= 1
    /\ obs.handle <=> (obs.timeouts # <<>>)
    /\ obs.gap >= DEBOUNCE_MS

\* the body has run twice, the second time no sooner than 100 ms after the
\* first, and a timer is pending again
C29_Witness ==
    /\ obs.runs >= 2
    /\ obs.gap = DEBOUNCE_MS
    /\ obs.sinceRun < DEBOUNCE_MS
    /\ obs.handle
    /\ Len(obs.timeouts) = 1

\* C31: updates of one account's entry are not lost when operations
\* overlap: a write that ends an operation keeps what the operation does
\* not change as it is stored at the moment of the write.  The write of a
\* pin, an add or a theme or unread-switch save keeps every stored tab, and
\* the write of a pin or an add keeps the stored theme and the stored unread
\* switch.
C31_NoLostUpdate ==
    (lastOp.how = "written" /\ lastOp.op \in {"pin", "add", "save"}) =>
        /\ \A k \in 1..Len(lastOp.before.tabs) :
              \E j \in 1..Len(lastOp.after.tabs) :
                 lastOp.after.tabs[j] = lastOp.before.tabs[k]
        /\ lastOp.op \in {"pin", "add"} =>
              /\ lastOp.after.theme = lastOp.before.theme
              /\ lastOp.after.showUnreadCount = lastOp.before.showUnreadCount

\* C32: Path A writes to a badge only a count of the feed of the shortcut's
\* own target: the count of the default feed (empty path segment, the inbox)
\* is written only to a shortcut that points at the inbox.
C32_CountFromOwnFeed ==
    (lastA.done /\ ~lastA.scraper /\ FeedLabel(lastA.tab) = <<>>) =>
        \/ lastA.tab.type = "hash" /\ lastA.tab.value = Route.inbox
        \/ lastA.tab.type = "label" /\ ToLower(lastA.tab.value) = Word.inboxLower

\* C33: a Path A resolution started in one render pass never changes a badge
\* of a later render pass: the step in which the fetch of a call of an
\* earlier pass settles leaves every element of the bar in the document as
\* it was.
C33_LateWriteLeavesBar ==
    [][(lastA'.done /\ lastA'.el[1] # shown) => BarElems' = BarElems]_vars

\* the bar has been rendered again, and a call of the pass before wrote a
\* count to its own element, which the element now at that position does not
\* show
C33_Witness ==
    /\ lastA.done
    /\ lastA.el[1] # shown
    /\ barPresent /\ shown # 0
    /\ lastA.after.text # <<>>
    /\ lastA.el[2] <= Len(BarElems)
    /\ BarElems[lastA.el[2]].tab = lastA.tab
    /\ BarElems[lastA.el[2]].hasSpan
    /\ BarElems[lastA.el[2]].text # lastA.after.text

\* a batch key that the claim lets the fuzzy scan take for the identifier: no
\* system pseudo-identifier, and equal to it up to case and separators
SeparatorChars == {" ", "-", "_", "/"}

CosmeticForm(str) == SelectSeq(ToLower(str), LAMBDA c : c \notin SeparatorChars)

CosmeticMatch(key, id) ==
    ~StartsWith(key, <<"^">>) /\ CosmeticForm(key) = CosmeticForm(id)

\* C34: Path B's fuzzy scan never matches a category shortcut to a batch
\* entry that is a system pseudo-identifier or that differs from the
\* shortcut's resolved identifier by more than case and separators: a pass
\* whose batch holds neither the resolved identifier nor such a near form of
\* it leaves the shortcut's badge as it was.
C34_FuzzyOnlyCosmetic ==
    lastB.done =>
        \A i \in 1..Len(lastB.before) :
            LET tab == lastB.before[i].tab
                id == ResolvedId(LabelMaps[dom].map, LabelIdOf(tab))
            IN (/\ tab.value # <<>>
                /\ ~LabelIdThrows(tab)
                /\ FuzzyAllowed(id)
                /\ \A j \in 1..Len(lastB.batch) :
                      /\ lastB.batch[j].label # id
                      /\ ~CosmeticMatch(lastB.batch[j].label, id))
               => BarElems[i] = lastB.before[i]

\* C35: the retry timers of attemptInjection stay bounded: while the toolbar
\* is absent at most one of them is pending, however often the observer's
\* debounced body runs, and once the toolbar has been found and the bar
\* inserted none is pending.
C35_OneRetryChain ==
    /\ Len(obs.retries) <= 1
    /\ (obs.toolbar /\ barPresent) => obs.retries = <<>>

\* C36: once the toolbar is present and the account's settings are loaded,
\* the bar is eventually in the document and shows the configured tabs,
\* whichever of the injection and the loading came first, and again after the
\* host removed the bar.
C36_BarEventuallyShown ==
    (obs.toolbar /\ currentSettings.loaded) ~> (BarShowsStored /\ currentSettings = stored)

\* the bar shows the configured tabs again after the host removed it: the
\* observer's debounced body inserted a new bar and rendered a second time
C36_Witness ==
    /\ BarShowsStored
    /\ currentSettings = stored
    /\ gen = 2
    /\ obs.runs >= 1
    /\ obs.bars = 1

\* C37: at every moment the document holds at most one tab-bar element,
\* under any interleaving of init, the observer's callbacks, the retry timers
\* and the host's re-renders.
C37_AtMostOneBar ==
    /\ obs.bars <= 1
    /\ barPresent <=> obs.bars = 1

\* the bar is in the document once, after the debounced body has run twice
\* and with a retry timer of attemptInjection still pending
C37_Witness ==
    /\ obs.bars = 1
    /\ barPresent
    /\ obs.runs >= 2
    /\ obs.retries # <<>>

\* list a is list b with one of its elements taken out and put back at some
\* position, all the others in their order
IsOneMove(b, a) ==
    /\ Len(a) = Len(b)
    /\ \E i \in 1..Len(b) : \E k \in 1..Len(b) :
          a = SubSeq(Without(b, i), 1, k - 1) \o <<b[i]>>
                  \o SubSeq(Without(b, i), k, Len(b) - 1)

\* C38: every completed drop, on the bar or in the settings list, leaves the
\* tab list a permutation of the list before the drop, with no entry lost,
\* doubled or undefined and the order of the tabs not moved kept: the list
\* after the drop is the list before it with exactly one tab moved.
C38_DropIsOneMove ==
    drag.last.done =>
        /\ IsOneMove(drag.last.before, drag.last.after)
        /\ \A k \in 1..Len(drag.last.after) : drag.last.after[k] # tUndefined

\* C39: once every pending read and write has completed, the in-memory
\* settings and the tabs the bar shows equal the settings stored for the
\* account, after any local edits (optimistic reorders whose write may fail
\* among them) and storage-change notifications.
C39_QuiescentInSync ==
    reqs = <<>> =>
        /\ currentSettings = getSettings(stored)
        /\ drag.rendered = getSettings(stored).tabs

====
